---- MODULE Spec2Model ----
\* Stock_service_web_app: a multi-tenant stock management application.
\* The state is the content of the database tables (stock_service/models.py);
\* every action is one HTTP request handled by a view of stock_service/views.py,
\* together with the form validation of stock_service/forms.py it runs.
EXTENDS Integers, Sequences, FiniteSets, TLC

\* ---------------------------------------------------------------- bounds
\* Largest quantity a request may name and a stock item may hold.
MaxQty == 2
\* Largest number of rows of the movement ledger.
MaxMovements == 1
\* Last day the calendar reaches (date.today() is 0..MaxDay).
MaxDay == 1
\* Number of requests a metered client is served.
MaxRequests == 2
\* Largest primary key of a kind, drawer, object user, stock item or refill schedule.
MaxRows == 3
\* Largest number of rows of the usage log.
MaxUsages == 1

\* ---------------------------------------------------------------- universe
Societies == {"A", "B"}
Levels == {"free", "basic", "premium"}
Methods == {"GET", "POST"}
NoDrawer == 0
NoUser == 0
NoDate == 0 - 1
NoId == 0
EmptyTable == [x \in {} |-> 0]

VARIABLES
    society,     \* Society rows: name -> subscription level and drawer flags
    users,       \* User rows by primary key
    stock,       \* StockObject rows by primary key
    drawers,     \* Drawer rows by primary key
    placement,   \* StockObjectDrawerPlacement rows by (stock_object, drawer)
    movements,   \* StockMovement rows in order of creation
    refill,      \* RefillSchedule rows by primary key
    kinds,       \* StockObjectKind rows by primary key
    object_users, \* ObjectUser rows by primary key
    usages,      \* StockUsage rows in order of creation
    session,     \* the client's session: the user logged in and the backend that did it
    settings,    \* the project settings: AUTHENTICATION_BACKENDS
    today,       \* date.today()
    handled,     \* number of requests a metered client has been served
    last         \* the last request handled and the response it got

vars == <<society, users, stock, drawers, placement, movements, refill, kinds, object_users,
          usages, session, settings, today, handled, last>>

\* ---------------------------------------------------------------- helpers
\* What the caller sees of a request: the view that handled it and how it ended.
Response(op, outcome) == [op |-> op, outcome |-> outcome]

NoRequest == Response("none", "none")

\* Model.objects.filter(society=society) on a table keyed by primary key.
RowsOf(table, soc) == {k \in DOMAIN table : table[k].society = soc}

\* The quantity held by a placement row; no row holds nothing.
PlacementQty(pl, item, d) == IF <<item, d>> \in DOMAIN pl THEN pl[<<item, d>>] ELSE 0

\* StockObjectDrawerPlacement.objects.get_or_create(..., defaults={'quantity': 0})
GetOrCreatePlacementReset(pl, item, d) == (<<item, d>> :> 0) @@ pl

GetOrCreatePlacement(pl, item, d) ==
    IF <<item, d>> \in DOMAIN pl THEN pl ELSE pl @@ (<<item, d>> :> 0)

Movement(soc, item, type, q, u, d, sched) ==
    [society |-> soc, stock_object |-> item, movement_type |-> type, quantity |-> q,
     moved_by |-> u, drawer_involved |-> d, schedule |-> sched]

Tables(st, pl, mv) == [stock |-> st, placement |-> pl, movements |-> mv]

\* with transaction.atomic(): the writes made inside the block are kept unless
\* transaction.set_rollback(True) was called before the block is left.
AtomicNoRollback(before, after, rollback) == after

Atomic(before, after, rollback) == IF rollback THEN before ELSE after

\* StockMovementForm.is_valid(): the item and the drawer are choices among the
\* rows of the caller's society, the quantity is a PositiveIntegerField.
StockMovementFormAnySociety(soc, item, q, d) ==
    /\ item \in DOMAIN stock
    /\ q >= 0
    /\ (d = NoDrawer \/ d \in DOMAIN drawers)

StockMovementFormValid(soc, item, q, d) ==
    /\ item \in RowsOf(stock, soc)
    /\ q >= 0
    /\ (d = NoDrawer \/ d \in RowsOf(drawers, soc))

\* if stock_object.current_quantity >= quantity
SufficientStockOffByOne(current, q) == current + 1 >= q

SufficientStock(current, q) == current >= q

\* if placement.quantity >= quantity
DrawerSufficientAlways(held, q) == TRUE

DrawerSufficient(held, q) == held >= q

\* A client whose requests are not counted, and one that is served MaxRequests requests.
Unmetered == UNCHANGED handled

Metered == handled < MaxRequests /\ handled' = handled + 1

\* ---------------------------------------------------------------- stock out
StockOutResult(u, method, item, q, d) ==
    LET soc == users[u].society
        before == Tables(stock, placement, movements)
    IN  IF method # "POST" THEN [tables |-> before, outcome |-> "form"]
        ELSE IF ~StockMovementFormValid(soc, item, q, d)
        THEN [tables |-> before, outcome |-> "invalid"]
        ELSE IF ~SufficientStock(stock[item].current_quantity, q)
        THEN [tables |-> before, outcome |-> "insufficient"]
        ELSE
          LET stock1 == [stock EXCEPT ![item].current_quantity = @ - q]
              useDrawer == society[soc].can_manage_drawers /\ d # NoDrawer
              placement1 == IF useDrawer THEN GetOrCreatePlacement(placement, item, d)
                            ELSE placement
              short == useDrawer /\ ~DrawerSufficient(placement1[<<item, d>>], q)
              placement2 == IF useDrawer /\ ~short
                            THEN [placement1 EXCEPT ![<<item, d>>] = @ - q]
                            ELSE placement1
              movements2 == IF short THEN movements
                            ELSE Append(movements, Movement(soc, item, "out", q, u, d, NoId))
          IN  [tables |-> Atomic(before, Tables(stock1, placement2, movements2), short),
               outcome |-> IF short THEN "drawer_insufficient" ELSE "ok"]

stock_out_stock_service(u, method, item, q, d) ==
    /\ u \in DOMAIN users
    /\ LET r == StockOutResult(u, method, item, q, d)
       IN  /\ stock' = r.tables.stock
           /\ placement' = r.tables.placement
           /\ movements' = r.tables.movements
           /\ last' = Response("stock_out", r.outcome)
    /\ Len(movements') <= MaxMovements
    /\ UNCHANGED <<society, users, drawers, refill, today, kinds, object_users, usages,
                  session, settings>>

\* ---------------------------------------------------------------- stock in
\* A stock-in that appends its Movement without saving the item.
StockInResultNoSave(u, method, item, q, d) ==
    LET soc == users[u].society
        before == Tables(stock, placement, movements)
    IN  IF method # "POST" THEN [tables |-> before, outcome |-> "form"]
        ELSE IF ~StockMovementFormValid(soc, item, q, d)
        THEN [tables |-> before, outcome |-> "invalid"]
        ELSE [tables |-> Tables(stock, placement,
                                Append(movements, Movement(soc, item, "in", q, u, d, NoId))),
              outcome |-> "ok"]

StockInResult(u, method, item, q, d) ==
    LET soc == users[u].society
        before == Tables(stock, placement, movements)
    IN  IF method # "POST" THEN [tables |-> before, outcome |-> "form"]
        ELSE IF ~StockMovementFormValid(soc, item, q, d)
        THEN [tables |-> before, outcome |-> "invalid"]
        ELSE
          LET stock1 == [stock EXCEPT ![item].current_quantity = @ + q]
              useDrawer == society[soc].can_manage_drawers /\ d # NoDrawer
              placement1 == IF useDrawer
                            THEN [GetOrCreatePlacement(placement, item, d)
                                    EXCEPT ![<<item, d>>] = @ + q]
                            ELSE placement
              movements1 == Append(movements, Movement(soc, item, "in", q, u, d, NoId))
          IN  [tables |-> Atomic(before, Tables(stock1, placement1, movements1), FALSE),
               outcome |-> "ok"]

stock_in_stock_service(u, method, item, q, d) ==
    /\ u \in DOMAIN users
    /\ LET r == StockInResult(u, method, item, q, d)
       IN  /\ stock' = r.tables.stock
           /\ placement' = r.tables.placement
           /\ movements' = r.tables.movements
           /\ last' = Response("stock_in", r.outcome)
    /\ \A i \in DOMAIN stock' : stock'[i].current_quantity <= MaxQty
    /\ Len(movements') <= MaxMovements
    /\ UNCHANGED <<society, users, drawers, refill, today, kinds, object_users, usages,
                  session, settings>>

\* ---------------------------------------------------------------- refill completion
\* schedule.is_completed = True; schedule.completed_date = date.today()
MarkCompletedNoFlag(sched, day) == [sched EXCEPT !.completed_date = day]

MarkCompleted(sched, day) == [sched EXCEPT !.is_completed = TRUE, !.completed_date = day]

\* if request.method == 'POST' and not schedule.is_completed

CanComplete(method, sched) == method = "POST" /\ ~sched.is_completed

complete_refill_stock_service(u, method, pk) ==
    /\ u \in DOMAIN users
    /\ LET soc == users[u].society
       IN  IF pk \notin RowsOf(refill, soc)
           THEN /\ last' = Response("complete_refill", "not_found")
                /\ UNCHANGED <<stock, movements, refill>>
           ELSE IF CanComplete(method, refill[pk])
           THEN LET item == refill[pk].stock_object
                    q == refill[pk].quantity_to_refill
                IN  /\ refill' = [refill EXCEPT ![pk] = MarkCompleted(@, today)]
                    /\ stock' = [stock EXCEPT ![item].current_quantity = @ + q]
                    /\ movements' = Append(movements, Movement(soc, item, "in", q, u, NoDrawer, pk))
                    /\ last' = Response("complete_refill", "completed")
           ELSE IF refill[pk].is_completed
           THEN /\ last' = Response("complete_refill", "already_completed")
                /\ UNCHANGED <<stock, movements, refill>>
           ELSE /\ last' = Response("complete_refill", "invalid_request")
                /\ UNCHANGED <<stock, movements, refill>>
    /\ \A i \in DOMAIN stock' : stock'[i].current_quantity <= MaxQty
    /\ Len(movements') <= MaxMovements
    /\ UNCHANGED <<society, users, drawers, placement, today, kinds, object_users, usages,
                  session, settings>>

\* ---------------------------------------------------------------- the calendar
NextDay ==
    /\ today < MaxDay
    /\ today' = today + 1
    /\ last' = NoRequest
    /\ UNCHANGED <<society, users, stock, drawers, placement, movements, refill, kinds,
                  object_users, usages, session, settings>>

\* ---------------------------------------------------------------- stock specification
ItemIds == {1, 2}
DrawerIds == {1, 2}
ScheduleIds == {1}
Quantities == 0 .. MaxQty

SocietyRow(level, manage, shows) ==
    [subscription_level |-> level, can_manage_drawers |-> manage,
     shows_drawers_in_list |-> shows]

UserRow(soc, name, email, pw, admin, active, staff) ==
    [society |-> soc, username |-> name, email |-> email, password |-> pw,
     is_society_admin |-> admin, is_active |-> active, is_staff |-> staff]

StockRow(soc, name, kind, q, active) ==
    [society |-> soc, name |-> name, kind |-> kind, current_quantity |-> q,
     is_active |-> active]

DrawerRow(soc, cabinet, letter, number) ==
    [society |-> soc, cabinet_name |-> cabinet, drawer_letter_x |-> letter,
     drawer_number_y |-> number]

\* A user together with the backend that authenticated it; an anonymous session.
Authenticated(user, backend) == [user |-> user, backend |-> backend]

NoSession == Authenticated(NoUser, "None")

\* The settings of a project that authenticates with SocietyAuthBackend.
SettingsRow(backends) == [AUTHENTICATION_BACKENDS |-> backends]

\* The tables and the client state that neither the stock nor the user pages touch.
InitRest ==
    /\ kinds = EmptyTable
    /\ object_users = EmptyTable
    /\ usages = <<>>
    /\ session = NoSession
    /\ settings = SettingsRow(<<"SocietyAuthBackend", "ModelBackend">>)
    /\ handled = 0

\* RefillSchedule: is_completed defaults to False, completed_date to null.
RefillRowCompleted(soc, item, q, day) ==
    [society |-> soc, stock_object |-> item, quantity_to_refill |-> q,
     scheduled_date |-> day, is_completed |-> TRUE, completed_date |-> NoDate]

RefillRow(soc, item, q, day) ==
    [society |-> soc, stock_object |-> item, quantity_to_refill |-> q,
     scheduled_date |-> day, is_completed |-> FALSE, completed_date |-> NoDate]

\* Society A is registered, with or without drawer management, and holds item 1,
\* drawer 1 and a pending refill schedule; item 2 and drawer 2 do not exist.
InitStock ==
    /\ \E manage \in BOOLEAN :
         society = ("A" :> SocietyRow(IF manage THEN "premium" ELSE "free", manage, FALSE))
    /\ users = (1 :> UserRow("A", "ann", "ann@x", "pa", TRUE, TRUE, TRUE))
    /\ \E q0 \in 0 .. MaxQty :
         /\ stock = (1 :> StockRow("A", "bolt", NoId, q0, TRUE))
         /\ \/ placement = EmptyTable
            \/ \E p \in 0 .. q0 : placement = (<<1, 1>> :> p)
    /\ drawers = (1 :> DrawerRow("A", "cab", "a", 1))
    /\ movements = <<>>
    /\ refill = (1 :> RefillRow("A", 1, 1, 0))
    /\ today = 0
    /\ last = NoRequest
    /\ InitRest

NextStock ==
    \/ Unmetered /\ \E u \in DOMAIN users, i \in ItemIds, q \in Quantities, d \in DrawerIds \cup {NoDrawer} :
          stock_out_stock_service(u, "POST", i, q, d)
    \/ Unmetered /\ \E u \in DOMAIN users : stock_out_stock_service(u, "GET", NoId, 0, NoDrawer)
    \/ Unmetered /\ \E u \in DOMAIN users, i \in ItemIds, q \in Quantities, d \in DrawerIds \cup {NoDrawer} :
          stock_in_stock_service(u, "POST", i, q, d)
    \/ Unmetered /\ \E u \in DOMAIN users : stock_in_stock_service(u, "GET", NoId, 0, NoDrawer)
    \/ Unmetered /\ \E u \in DOMAIN users, m \in Methods, pk \in ScheduleIds :
          complete_refill_stock_service(u, m, pk)
    \/ Unmetered /\ NextDay

SpecStock == InitStock /\ [][NextStock]_vars

\* ---------------------------------------------------------------- subscription limits
\* float('inf'): no limit.
Inf == 0 - 1

\* SUBSCRIPTION_LIMITS
SUBSCRIPTION_LIMITS ==
    [free |-> [max_admins |-> 1, max_users |-> 2],
     basic |-> [max_admins |-> 2, max_users |-> 10],
     premium |-> [max_admins |-> Inf, max_users |-> Inf]]

\* n >= max and n > max, for a max that may be float('inf')
AtLeast(n, max) == max # Inf /\ n >= max
Exceeds(n, max) == max # Inf /\ n > max

\* User.objects.filter(society=society, is_society_admin=True)
AdminsOf(table, soc) == {k \in RowsOf(table, soc) : table[k].is_society_admin}
\* User.objects.filter(society=society, is_active=True)
ActiveOf(table, soc) == {k \in RowsOf(table, soc) : table[k].is_active}

\* __iexact compares case-insensitively; the identifiers of the universe fold so.
Lower(name) ==
    CASE name = "Ann" -> "ann" [] name = "ANN@X" -> "ann@x" [] name = "Nut" -> "nut"
      [] name = "Lab" -> "lab" [] name = "X" -> "x" [] OTHER -> name

\* ---------------------------------------------------------------- user management
\* Largest number of User rows.
MaxUsers == 3
UserIds == 1 .. MaxUsers

\* UserManagementMixin.test_func
IsSocietyAdminAnyone(u) == TRUE

IsSocietyAdmin(u) == users[u].is_society_admin

\* The primary key given to a new row.
NewId(table, ids) == CHOOSE k \in ids : k \notin DOMAIN table /\ \A j \in ids : j \notin DOMAIN table => k <= j

\* UserCreateForm.clean and the model's unique username: the errors of a submission.
\* if existing_total_user_count >= max_users
TotalUsersAtLimitOffByOne(count, max) == Exceeds(count, max)

TotalUsersAtLimit(count, max) == AtLeast(count, max)

UserCreateFormValid(soc, name, admin) ==
    LET limits == SUBSCRIPTION_LIMITS[society[soc].subscription_level]
    IN  /\ \A k \in DOMAIN users : users[k].username # name
        /\ \A k \in RowsOf(users, soc) : Lower(users[k].username) # Lower(name)
        /\ ~(admin /\ AtLeast(Cardinality(AdminsOf(users, soc)), limits.max_admins))
        /\ ~TotalUsersAtLimit(Cardinality(RowsOf(users, soc)), limits.max_users)

UserCreateView(actor, method, name, email, pw, admin, active) ==
    /\ actor \in DOMAIN users
    /\ IF ~IsSocietyAdmin(actor)
       THEN /\ last' = Response("user_create", "denied")
            /\ UNCHANGED users
       ELSE IF method # "POST"
       THEN /\ last' = Response("user_create", "form")
            /\ UNCHANGED users
       ELSE IF ~UserCreateFormValid(users[actor].society, name, admin)
       THEN /\ last' = Response("user_create", "invalid")
            /\ UNCHANGED users
       ELSE /\ DOMAIN users # UserIds
            /\ users' = users @@ (NewId(users, UserIds) :>
                            UserRow(users[actor].society, name, email, pw, admin, active, FALSE))
            /\ last' = Response("user_create", "ok")
    /\ UNCHANGED <<society, stock, drawers, placement, movements, refill, today, kinds,
                  object_users, usages, session, settings>>

\* UserUpdateForm.clean: the "only admin" lockout of the free plan.
LastAdminLockoutNever(level, original, new, others) == FALSE

LastAdminLockout(level, original, new, others) ==
    original /\ ~new /\ level = "free" /\ others = 0

\* UserUpdateForm.clean: promotion beyond max_admins
\* if (admin_count_excluding_current_user + 1) > max_admins
PromotionExceedsNever(original, new, others, max) == FALSE

PromotionExceeds(original, new, others, max) ==
    ~original /\ new /\ Exceeds(others + 1, max)

UserUpdateFormValid(soc, pk, admin, active) ==
    LET limits == SUBSCRIPTION_LIMITS[society[soc].subscription_level]
        others == Cardinality(AdminsOf(users, soc) \ {pk})
        otherActive == Cardinality(ActiveOf(users, soc) \ {pk})
    IN  /\ ~PromotionExceeds(users[pk].is_society_admin, admin, others, limits.max_admins)
        /\ ~(~users[pk].is_active /\ active /\ Exceeds(otherActive + 1, limits.max_users))
        /\ ~LastAdminLockout(society[soc].subscription_level, users[pk].is_society_admin,
                             admin, others)

UserUpdateView(actor, method, pk, email, admin, active) ==
    /\ actor \in DOMAIN users
    /\ IF ~IsSocietyAdmin(actor)
       THEN /\ last' = Response("user_update", "denied")
            /\ UNCHANGED users
       ELSE IF pk \notin RowsOf(users, users[actor].society)
       THEN /\ last' = Response("user_update", "not_found")
            /\ UNCHANGED users
       ELSE IF method # "POST"
       THEN /\ last' = Response("user_update", "form")
            /\ UNCHANGED users
       ELSE IF ~UserUpdateFormValid(users[actor].society, pk, admin, active)
       THEN /\ last' = Response("user_update", "invalid")
            /\ UNCHANGED users
       ELSE /\ users' = [users EXCEPT ![pk].email = email, ![pk].is_society_admin = admin,
                                      ![pk].is_active = active]
            /\ last' = Response("user_update", "ok")
    /\ UNCHANGED <<society, stock, drawers, placement, movements, refill, today, kinds,
                  object_users, usages, session, settings>>

\* on_delete=models.SET_NULL of StockMovement.moved_by
WithoutMover(mv, pk) ==
    [n \in DOMAIN mv |-> IF mv[n].moved_by = pk THEN [mv[n] EXCEPT !.moved_by = NoUser] ELSE mv[n]]

\* on_delete=models.SET_NULL of StockUsage.logged_by
WithoutLogger(us, pk) ==
    [n \in DOMAIN us |-> IF us[n].logged_by = pk THEN [us[n] EXCEPT !.logged_by = NoUser] ELSE us[n]]

\* A table without the row of primary key pk.
Without(table, pk) == [k \in DOMAIN table \ {pk} |-> table[k]]

UserDeleteView(actor, method, pk) ==
    /\ actor \in DOMAIN users
    /\ IF ~IsSocietyAdmin(actor)
       THEN /\ last' = Response("user_delete", "denied")
            /\ UNCHANGED <<users, movements, usages>>
       ELSE IF pk \notin RowsOf(users, users[actor].society)
       THEN /\ last' = Response("user_delete", "not_found")
            /\ UNCHANGED <<users, movements, usages>>
       ELSE IF method # "POST"
       THEN /\ last' = Response("user_delete", "form")
            /\ UNCHANGED <<users, movements, usages>>
       ELSE /\ users' = Without(users, pk)
            /\ movements' = WithoutMover(movements, pk)
            /\ usages' = WithoutLogger(usages, pk)
            /\ last' = Response("user_delete", "ok")
    /\ UNCHANGED <<society, stock, drawers, placement, refill, today, kinds, object_users,
                  session, settings>>

\* UserListView: the users of the caller's society, shown to its administrators.
UserListView(actor) ==
    /\ actor \in DOMAIN users
    /\ IF ~IsSocietyAdmin(actor)
       THEN last' = Response("user_list", "denied")
       ELSE last' = Response("user_list", "ok")
    /\ UNCHANGED <<society, users, stock, drawers, placement, movements, refill, today, kinds,
                  object_users, usages, session, settings>>

\* ---------------------------------------------------------------- subscription
\* fake_payment_view: the plan comes from the query string of any request method.
fake_payment_view(actor, plan) ==
    /\ actor \in DOMAIN users
    /\ LET soc == users[actor].society
       IN  IF plan \notin Levels
           THEN /\ last' = Response("fake_payment", "invalid_plan")
                /\ UNCHANGED society
           ELSE IF society[soc].subscription_level = plan
           THEN /\ last' = Response("fake_payment", "same_plan")
                /\ UNCHANGED society
           ELSE /\ society' = [society EXCEPT
                      ![soc] = SocietyRow(plan,
                                   IF plan = "free" THEN FALSE ELSE @.can_manage_drawers,
                                   IF plan \in {"free", "basic"} THEN FALSE
                                   ELSE @.shows_drawers_in_list)]
                /\ last' = Response("fake_payment", "changed")
    /\ UNCHANGED <<users, stock, drawers, placement, movements, refill, today, kinds,
                  object_users, usages, session, settings>>

\* SocietySettingsForm: Meta.fields, the order in which the fields are cleaned.
SettingsFields == <<"can_manage_drawers", "shows_drawers_in_list", "subscription_level">>

\* self.cleaned_data.get('subscription_level') inside clean_<field>: the submitted
\* level once subscription_level has been cleaned, None before.
SubmittedLevelSeenBy(field, level) ==
    LET pos(f) == CHOOSE n \in DOMAIN SettingsFields : SettingsFields[n] = f
    IN  IF pos("subscription_level") < pos(field) THEN level ELSE "none"

SocietySettingsFormValid(level, manage, shows) ==
    /\ level \in Levels
    /\ ~(manage /\ SubmittedLevelSeenBy("can_manage_drawers", level) = "free")
    /\ ~(shows /\ SubmittedLevelSeenBy("shows_drawers_in_list", level) = "free")
    /\ ~(shows /\ SubmittedLevelSeenBy("shows_drawers_in_list", level) = "basic")

society_settings_stock_service(actor, method, level, manage, shows) ==
    /\ actor \in DOMAIN users
    /\ IF ~IsSocietyAdmin(actor)
       THEN /\ last' = Response("society_settings", "denied")
            /\ UNCHANGED society
       ELSE IF method # "POST"
       THEN /\ last' = Response("society_settings", "form")
            /\ UNCHANGED society
       ELSE IF ~SocietySettingsFormValid(level, manage, shows)
       THEN /\ last' = Response("society_settings", "invalid")
            /\ UNCHANGED society
       ELSE /\ society' = [society EXCEPT ![users[actor].society] = SocietyRow(level, manage, shows)]
            /\ last' = Response("society_settings", "ok")
    /\ UNCHANGED <<users, stock, drawers, placement, movements, refill, today, kinds,
                  object_users, usages, session, settings>>

\* ---------------------------------------------------------------- users specification
Usernames == {"Ann", "cy", "dee"}

\* SocietyRegistrationForm.save: a registered society is on the free plan and has
\* one user, its active administrator. Society A alone is registered.
InitUsers ==
    /\ society = ("A" :> SocietyRow("free", FALSE, FALSE))
    /\ users = (1 :> UserRow("A", "ann", "ann@x", "pa", TRUE, TRUE, TRUE))
    /\ stock = EmptyTable
    /\ drawers = EmptyTable
    /\ placement = EmptyTable
    /\ movements = <<>>
    /\ refill = EmptyTable
    /\ today = 0
    /\ last = NoRequest
    /\ InitRest

\* The e-mail address a user-update form submits: the stored one.
StoredEmail(pk) == IF pk \in DOMAIN users THEN users[pk].email ELSE "none@x"

NextUsers ==
    \/ Unmetered /\ \E actor \in DOMAIN users, name \in Usernames, admin \in BOOLEAN :
          UserCreateView(actor, "POST", name, "new@x", "pn", admin, TRUE)
    \/ Unmetered /\ \E actor \in DOMAIN users :
          UserCreateView(actor, "GET", "ann", "new@x", "pn", FALSE, FALSE)
    \/ Unmetered /\ \E actor \in DOMAIN users, pk \in UserIds, admin \in BOOLEAN, active \in BOOLEAN :
          UserUpdateView(actor, "POST", pk, StoredEmail(pk), admin, active)
    \/ Unmetered /\ \E actor \in DOMAIN users, pk \in UserIds :
          UserUpdateView(actor, "GET", pk, StoredEmail(pk), FALSE, FALSE)
    \/ Unmetered /\ \E actor \in DOMAIN users, m \in Methods, pk \in UserIds :
          UserDeleteView(actor, m, pk)
    \/ Unmetered /\ \E actor \in DOMAIN users : UserListView(actor)
    \/ Unmetered /\ \E actor \in DOMAIN users, plan \in Levels \cup {"gold"} :
          fake_payment_view(actor, plan)
    \/ Unmetered /\ \E actor \in DOMAIN users, level \in Levels :
          society_settings_stock_service(actor, "POST", level, FALSE, FALSE)
    \/ Unmetered /\ \E actor \in DOMAIN users :
          society_settings_stock_service(actor, "GET", "free", FALSE, FALSE)

SpecUsers == InitUsers /\ [][NextUsers]_vars

\* ---------------------------------------------------------------- kinds
RowIds == 1 .. MaxRows

\* StockObjectKindForm.clean_name: no other kind of the society has the name,
\* compared without case.
StockObjectKindFormValid(soc, pk, name) ==
    \A k \in RowsOf(kinds, soc) \ {pk} : Lower(kinds[k].name) # Lower(name)

stock_object_kind_list_stock_service(u, method, name) ==
    /\ u \in DOMAIN users
    /\ IF method # "POST"
       THEN /\ last' = Response("kind_create", "form")
            /\ UNCHANGED kinds
       ELSE IF ~StockObjectKindFormValid(users[u].society, NoId, name)
       THEN /\ last' = Response("kind_create", "invalid")
            /\ UNCHANGED kinds
       ELSE /\ DOMAIN kinds # RowIds
            /\ kinds' = kinds @@ (NewId(kinds, RowIds) :> [society |-> users[u].society,
                                                            name |-> name])
            /\ last' = Response("kind_create", "ok")
    /\ UNCHANGED <<society, users, stock, drawers, placement, movements, refill,
                  object_users, usages, session, settings, today>>

StockObjectKindUpdateView(actor, method, pk, name) ==
    /\ actor \in DOMAIN users
    /\ IF ~IsSocietyAdmin(actor)
       THEN /\ last' = Response("kind_update", "denied")
            /\ UNCHANGED kinds
       ELSE IF pk \notin RowsOf(kinds, users[actor].society)
       THEN /\ last' = Response("kind_update", "not_found")
            /\ UNCHANGED kinds
       ELSE IF method # "POST"
       THEN /\ last' = Response("kind_update", "form")
            /\ UNCHANGED kinds
       ELSE IF ~StockObjectKindFormValid(users[actor].society, pk, name)
       THEN /\ last' = Response("kind_update", "invalid")
            /\ UNCHANGED kinds
       ELSE /\ kinds' = [kinds EXCEPT ![pk].name = name]
            /\ last' = Response("kind_update", "ok")
    /\ UNCHANGED <<society, users, stock, drawers, placement, movements, refill,
                  object_users, usages, session, settings, today>>

\* on_delete=models.SET_NULL of StockObject.kind
WithoutKind(st, pk) ==
    [i \in DOMAIN st |-> IF st[i].kind = pk THEN [st[i] EXCEPT !.kind = NoId] ELSE st[i]]

StockObjectKindDeleteView(actor, method, pk) ==
    /\ actor \in DOMAIN users
    /\ IF ~IsSocietyAdmin(actor)
       THEN /\ last' = Response("kind_delete", "denied")
            /\ UNCHANGED <<kinds, stock>>
       ELSE IF pk \notin RowsOf(kinds, users[actor].society)
       THEN /\ last' = Response("kind_delete", "not_found")
            /\ UNCHANGED <<kinds, stock>>
       ELSE IF method # "POST"
       THEN /\ last' = Response("kind_delete", "form")
            /\ UNCHANGED <<kinds, stock>>
       ELSE /\ kinds' = Without(kinds, pk)
            /\ stock' = WithoutKind(stock, pk)
            /\ last' = Response("kind_delete", "ok")
    /\ UNCHANGED <<society, users, drawers, placement, movements, refill, object_users,
                  usages, session, settings, today>>

\* ---------------------------------------------------------------- object users
\* ObjectUserForm.clean_name
ObjectUserFormValid(soc, pk, name) ==
    \A k \in RowsOf(object_users, soc) \ {pk} : Lower(object_users[k].name) # Lower(name)

ObjectUserCreateView(actor, method, name) ==
    /\ actor \in DOMAIN users
    /\ IF ~IsSocietyAdmin(actor)
       THEN /\ last' = Response("object_user_create", "denied")
            /\ UNCHANGED object_users
       ELSE IF method # "POST"
       THEN /\ last' = Response("object_user_create", "form")
            /\ UNCHANGED object_users
       ELSE IF ~ObjectUserFormValid(users[actor].society, NoId, name)
       THEN /\ last' = Response("object_user_create", "invalid")
            /\ UNCHANGED object_users
       ELSE /\ DOMAIN object_users # RowIds
            /\ object_users' = object_users @@ (NewId(object_users, RowIds) :>
                                   [society |-> users[actor].society, name |-> name])
            /\ last' = Response("object_user_create", "ok")
    /\ UNCHANGED <<society, users, stock, drawers, placement, movements, refill, kinds,
                  usages, session, settings, today>>

ObjectUserUpdateView(actor, method, pk, name) ==
    /\ actor \in DOMAIN users
    /\ IF ~IsSocietyAdmin(actor)
       THEN /\ last' = Response("object_user_update", "denied")
            /\ UNCHANGED object_users
       ELSE IF pk \notin RowsOf(object_users, users[actor].society)
       THEN /\ last' = Response("object_user_update", "not_found")
            /\ UNCHANGED object_users
       ELSE IF method # "POST"
       THEN /\ last' = Response("object_user_update", "form")
            /\ UNCHANGED object_users
       ELSE IF ~ObjectUserFormValid(users[actor].society, pk, name)
       THEN /\ last' = Response("object_user_update", "invalid")
            /\ UNCHANGED object_users
       ELSE /\ object_users' = [object_users EXCEPT ![pk].name = name]
            /\ last' = Response("object_user_update", "ok")
    /\ UNCHANGED <<society, users, stock, drawers, placement, movements, refill, kinds,
                  usages, session, settings, today>>

\* on_delete=models.CASCADE of StockUsage.object_user
WithoutUsagesBy(us, pk) == SelectSeq(us, LAMBDA row : row.object_user # pk)

ObjectUserDeleteView(actor, method, pk) ==
    /\ actor \in DOMAIN users
    /\ IF ~IsSocietyAdmin(actor)
       THEN /\ last' = Response("object_user_delete", "denied")
            /\ UNCHANGED <<object_users, usages>>
       ELSE IF pk \notin RowsOf(object_users, users[actor].society)
       THEN /\ last' = Response("object_user_delete", "not_found")
            /\ UNCHANGED <<object_users, usages>>
       ELSE IF method # "POST"
       THEN /\ last' = Response("object_user_delete", "form")
            /\ UNCHANGED <<object_users, usages>>
       ELSE /\ object_users' = Without(object_users, pk)
            /\ usages' = WithoutUsagesBy(usages, pk)
            /\ last' = Response("object_user_delete", "ok")
    /\ UNCHANGED <<society, users, stock, drawers, placement, movements, refill, kinds,
                  session, settings, today>>

\* ---------------------------------------------------------------- drawers
\* DrawerForm.clean: no other drawer of the society has the coordinates; the test is
\* skipped when one of them is empty or zero.
DrawerFormValid(soc, pk, cabinet, letter, number) ==
    /\ number >= 0
    /\ (cabinet # "" /\ letter # "" /\ number # 0)
         => \A k \in RowsOf(drawers, soc) \ {pk} :
               ~ /\ drawers[k].cabinet_name = cabinet
                 /\ Lower(drawers[k].drawer_letter_x) = Lower(letter)
                 /\ drawers[k].drawer_number_y = number

\* DrawerManagementMixin.test_func
MayManageDrawers(u) == users[u].is_society_admin /\ society[users[u].society].can_manage_drawers

manage_drawers_stock_service(u, method, cabinet, letter, number) ==
    /\ u \in DOMAIN users
    /\ IF ~society[users[u].society].can_manage_drawers
       THEN /\ last' = Response("drawer_create", "disabled")
            /\ UNCHANGED drawers
       ELSE IF method # "POST"
       THEN /\ last' = Response("drawer_create", "form")
            /\ UNCHANGED drawers
       ELSE IF ~DrawerFormValid(users[u].society, NoId, cabinet, letter, number)
       THEN /\ last' = Response("drawer_create", "invalid")
            /\ UNCHANGED drawers
       ELSE /\ DOMAIN drawers # RowIds
            /\ drawers' = drawers @@ (NewId(drawers, RowIds) :>
                              DrawerRow(users[u].society, cabinet, letter, number))
            /\ last' = Response("drawer_create", "ok")
    /\ UNCHANGED <<society, users, stock, placement, movements, refill, kinds,
                  object_users, usages, session, settings, today>>

DrawerUpdateView(actor, method, pk, cabinet, letter, number) ==
    /\ actor \in DOMAIN users
    /\ IF ~MayManageDrawers(actor)
       THEN /\ last' = Response("drawer_update", "denied")
            /\ UNCHANGED drawers
       ELSE IF pk \notin RowsOf(drawers, users[actor].society)
       THEN /\ last' = Response("drawer_update", "not_found")
            /\ UNCHANGED drawers
       ELSE IF method # "POST"
       THEN /\ last' = Response("drawer_update", "form")
            /\ UNCHANGED drawers
       ELSE IF ~DrawerFormValid(users[actor].society, pk, cabinet, letter, number)
       THEN /\ last' = Response("drawer_update", "invalid")
            /\ UNCHANGED drawers
       ELSE /\ drawers' = [drawers EXCEPT ![pk] = DrawerRow(@.society, cabinet, letter, number)]
            /\ last' = Response("drawer_update", "ok")
    /\ UNCHANGED <<society, users, stock, placement, movements, refill, kinds,
                  object_users, usages, session, settings, today>>

\* on_delete=models.CASCADE of StockObjectDrawerPlacement.drawer
WithoutPlacementsIn(pl, d) == [k \in {x \in DOMAIN pl : x[2] # d} |-> pl[k]]

\* on_delete=models.SET_NULL of StockMovement.drawer_involved
WithoutDrawerInvolved(mv, d) ==
    [n \in DOMAIN mv |-> IF mv[n].drawer_involved = d
                         THEN [mv[n] EXCEPT !.drawer_involved = NoDrawer] ELSE mv[n]]

DrawerDeleteView(actor, method, pk) ==
    /\ actor \in DOMAIN users
    /\ IF ~MayManageDrawers(actor)
       THEN /\ last' = Response("drawer_delete", "denied")
            /\ UNCHANGED <<drawers, placement, movements>>
       ELSE IF pk \notin RowsOf(drawers, users[actor].society)
       THEN /\ last' = Response("drawer_delete", "not_found")
            /\ UNCHANGED <<drawers, placement, movements>>
       ELSE IF method # "POST"
       THEN /\ last' = Response("drawer_delete", "form")
            /\ UNCHANGED <<drawers, placement, movements>>
       ELSE /\ drawers' = Without(drawers, pk)
            /\ placement' = WithoutPlacementsIn(placement, pk)
            /\ movements' = WithoutDrawerInvolved(movements, pk)
            /\ last' = Response("drawer_delete", "ok")
    /\ UNCHANGED <<society, users, stock, refill, kinds, object_users, usages, session,
                  settings, today>>

\* StockObjectDrawerPlacementForm: the item and the drawer are choices among the rows
\* of the caller's society; clean() refuses a pair that is already placed and a
\* quantity above the item's current quantity.
StockObjectDrawerPlacementFormValid(soc, item, d, q) ==
    /\ item \in RowsOf(stock, soc)
    /\ d \in RowsOf(drawers, soc)
    /\ q >= 0
    /\ <<item, d>> \notin DOMAIN placement
    /\ q <= stock[item].current_quantity

assign_stock_to_drawer_stock_service(u, method, item, d, q) ==
    /\ u \in DOMAIN users
    /\ IF ~society[users[u].society].can_manage_drawers
       THEN /\ last' = Response("assign_drawer", "disabled")
            /\ UNCHANGED placement
       ELSE IF method # "POST"
       THEN /\ last' = Response("assign_drawer", "form")
            /\ UNCHANGED placement
       ELSE IF ~StockObjectDrawerPlacementFormValid(users[u].society, item, d, q)
       THEN /\ last' = Response("assign_drawer", "invalid")
            /\ UNCHANGED placement
       ELSE /\ placement' = placement @@ (<<item, d>> :> q)
            /\ last' = Response("assign_drawer", "ok")
    /\ UNCHANGED <<society, users, stock, drawers, movements, refill, kinds, object_users,
                  usages, session, settings, today>>

\* ---------------------------------------------------------------- stock items
\* StockObjectForm: the kind is a choice among the kinds of the caller's society or
\* empty; clean_name refuses a name another item of the society has.
StockObjectFormValid(soc, pk, kind, name, q) ==
    /\ kind = NoId \/ kind \in RowsOf(kinds, soc)
    /\ q >= 0
    /\ (\E i \in RowsOf(stock, soc) : stock[i].name = name)
          => (pk # NoId /\ stock[pk].name = name)

add_stock_object_stock_service(u, method, kind, name, q, active) ==
    /\ u \in DOMAIN users
    /\ IF method # "POST"
       THEN /\ last' = Response("stock_add", "form")
            /\ UNCHANGED stock
       ELSE IF ~StockObjectFormValid(users[u].society, NoId, kind, name, q)
       THEN /\ last' = Response("stock_add", "invalid")
            /\ UNCHANGED stock
       ELSE /\ DOMAIN stock # RowIds
            /\ stock' = stock @@ (NewId(stock, RowIds) :>
                            StockRow(users[u].society, name, kind, q, active))
            /\ last' = Response("stock_add", "ok")
    /\ UNCHANGED <<society, users, drawers, placement, movements, refill, kinds,
                  object_users, usages, session, settings, today>>

update_stock_object_stock_service(u, method, pk, kind, name, q, active) ==
    /\ u \in DOMAIN users
    /\ IF pk \notin RowsOf(stock, users[u].society)
       THEN /\ last' = Response("stock_update", "not_found")
            /\ UNCHANGED stock
       ELSE IF method # "POST"
       THEN /\ last' = Response("stock_update", "form")
            /\ UNCHANGED stock
       ELSE IF ~StockObjectFormValid(users[u].society, pk, kind, name, q)
       THEN /\ last' = Response("stock_update", "invalid")
            /\ UNCHANGED stock
       ELSE /\ stock' = [stock EXCEPT ![pk] = StockRow(@.society, name, kind, q, active)]
            /\ last' = Response("stock_update", "ok")
    /\ UNCHANGED <<society, users, drawers, placement, movements, refill, kinds,
                  object_users, usages, session, settings, today>>

\* on_delete=models.CASCADE of the stock_object of a placement, a movement, a usage
\* and a refill schedule
WithoutPlacementsOf(pl, item) == [k \in {x \in DOMAIN pl : x[1] # item} |-> pl[k]]

WithoutRowsOf(rows, item) == SelectSeq(rows, LAMBDA row : row.stock_object # item)

WithoutSchedulesOf(table, item) ==
    [k \in {x \in DOMAIN table : table[x].stock_object # item} |-> table[k]]

delete_stock_object_stock_service(u, method, pk) ==
    /\ u \in DOMAIN users
    /\ IF pk \notin RowsOf(stock, users[u].society)
       THEN /\ last' = Response("stock_delete", "not_found")
            /\ UNCHANGED <<stock, placement, movements, usages, refill>>
       ELSE IF method # "POST"
       THEN /\ last' = Response("stock_delete", "form")
            /\ UNCHANGED <<stock, placement, movements, usages, refill>>
       ELSE /\ stock' = Without(stock, pk)
            /\ placement' = WithoutPlacementsOf(placement, pk)
            /\ movements' = WithoutRowsOf(movements, pk)
            /\ usages' = WithoutRowsOf(usages, pk)
            /\ refill' = WithoutSchedulesOf(refill, pk)
            /\ last' = Response("stock_delete", "ok")
    /\ UNCHANGED <<society, users, drawers, kinds, object_users, session, settings, today>>

\* ---------------------------------------------------------------- usage
\* if stock_object.current_quantity >= stock_usage.quantity_used
SufficientForUsageOffByOne(current, q) == current + 1 >= q

SufficientForUsageAlways(current, q) == TRUE

SufficientForUsage(current, q) == current >= q

Usage(soc, item, ou, q, start, end, u) ==
    [society |-> soc, stock_object |-> item, object_user |-> ou, quantity_used |-> q,
     start_date |-> start, end_date |-> end, logged_by |-> u]

\* StockUsageForm: the item and the object user are choices among the rows of the
\* caller's society, the start date is required, the end date is not before it.
StockUsageFormValid(soc, item, ou, q, start, end) ==
    /\ item \in RowsOf(stock, soc)
    /\ ou \in RowsOf(object_users, soc)
    /\ q >= 0
    /\ start # NoDate
    /\ end = NoDate \/ end >= start

add_stock_usage_stock_service(u, method, item, ou, q, start, end) ==
    /\ u \in DOMAIN users
    /\ IF method # "POST"
       THEN /\ last' = Response("usage_add", "form")
            /\ UNCHANGED <<stock, usages>>
       ELSE IF ~StockUsageFormValid(users[u].society, item, ou, q, start, end)
       THEN /\ last' = Response("usage_add", "invalid")
            /\ UNCHANGED <<stock, usages>>
       ELSE IF SufficientForUsage(stock[item].current_quantity, q)
       THEN /\ stock' = [stock EXCEPT ![item].current_quantity = @ - q]
            /\ usages' = Append(usages, Usage(users[u].society, item, ou, q, start, end, u))
            /\ last' = Response("usage_add", "ok")
       ELSE /\ last' = Response("usage_add", "insufficient")
            /\ UNCHANGED <<stock, usages>>
    /\ Len(usages') <= MaxUsages
    /\ UNCHANGED <<society, users, drawers, placement, movements, refill, kinds,
                  object_users, session, settings, today>>

\* ---------------------------------------------------------------- refill scheduling
\* RefillScheduleForm: the item is a choice among the active items of the caller's
\* society, the date is not before today.
RefillScheduleFormValid(soc, item, day, q) ==
    /\ item \in {i \in RowsOf(stock, soc) : stock[i].is_active}
    /\ day # NoDate /\ day >= today
    /\ q >= 0

\* refill_scheduler_stock_service: url_pk is the stock_object_pk of the URL, NoId
\* on the general page. RefillScheduleForm.clean_stock_object replaces the submitted
\* item by the item of the URL.
refill_scheduler_stock_service(u, method, url_pk, item, day, q) ==
    /\ u \in DOMAIN users
    /\ IF url_pk # NoId /\ url_pk \notin RowsOf(stock, users[u].society)
       THEN /\ last' = Response("refill_create", "not_found")
            /\ UNCHANGED refill
       ELSE IF method # "POST"
       THEN /\ last' = Response("refill_create", "form")
            /\ UNCHANGED refill
       ELSE IF ~RefillScheduleFormValid(users[u].society, item, day, q)
       THEN /\ last' = Response("refill_create", "invalid")
            /\ UNCHANGED refill
       ELSE /\ DOMAIN refill # RowIds
            /\ refill' = refill @@ (NewId(refill, RowIds) :>
                            RefillRow(users[u].society, IF url_pk # NoId THEN url_pk ELSE item,
                                      q, day))
            /\ last' = Response("refill_create", "ok")
    /\ UNCHANGED <<society, users, stock, drawers, placement, movements, kinds,
                  object_users, usages, session, settings, today>>

\* ---------------------------------------------------------------- authentication
\* A credential or a relation that is not given (None).
None == "None"

\* user.check_password(password): the stored password stands for its hash.
check_password(u, password) == users[u].password = password

\* CustomUser.objects.get(Q(username__iexact=username) | Q(email__iexact=username),
\*                        society=society): the rows the query matches.
UsersMatching(soc, username) ==
    {u \in RowsOf(users, soc) : \/ Lower(users[u].username) = Lower(username)
                                 \/ Lower(users[u].email) = Lower(username)}

\* SocietyAuthBackend.authenticate breaking a tie: some matching user whose password
\* fits is returned.
SocietyAuthBackend_authenticateTieBreak(username, password, society_name) ==
    IF username = None \/ password = None \/ society_name = None THEN NoUser
    ELSE IF society_name \notin DOMAIN society THEN NoUser
    ELSE LET fits == {u \in UsersMatching(society_name, username) : check_password(u, password)}
         IN  IF fits = {} THEN NoUser ELSE CHOOSE u \in fits : TRUE

\* SocietyAuthBackend.authenticate: the user it returns, NoUser for None.
SocietyAuthBackend_authenticate(username, password, society_name) ==
    IF username = None \/ password = None \/ society_name = None THEN NoUser
    ELSE IF society_name \notin DOMAIN society THEN NoUser
    ELSE LET found == UsersMatching(society_name, username)
         IN  IF Cardinality(found) # 1 THEN NoUser
             ELSE LET user == CHOOSE u \in found : TRUE
                  IN  IF check_password(user, password) THEN user ELSE NoUser

\* django.contrib.auth.backends.ModelBackend.authenticate: the user of exactly that
\* username (AbstractUser.username is unique), if the password matches and the user
\* is active; the society name among the credentials is ignored.
ModelBackend_authenticate(username, password) ==
    LET found == {u \in DOMAIN users : users[u].username = username}
    IN  IF username = None \/ password = None \/ found = {} THEN NoUser
        ELSE LET user == CHOOSE u \in found : TRUE
             IN  IF check_password(user, password) /\ users[user].is_active THEN user
                 ELSE NoUser

\* django.contrib.auth.authenticate(request, **credentials): the first user a
\* configured backend returns, annotated with that backend.
RECURSIVE TryBackends(_, _, _, _)
TryBackends(backends, username, password, society_name) ==
    IF backends = <<>> THEN NoSession
    ELSE LET user == IF Head(backends) = "SocietyAuthBackend"
                     THEN SocietyAuthBackend_authenticate(username, password, society_name)
                     ELSE ModelBackend_authenticate(username, password)
         IN  IF user # NoUser THEN Authenticated(user, Head(backends))
             ELSE TryBackends(Tail(backends), username, password, society_name)

authenticate(username, password, society_name) ==
    TryBackends(settings.AUTHENTICATION_BACKENDS, username, password, society_name)

\* CustomAuthenticationForm.clean: the error of the submission, "none" if it is valid.
\* super().clean() authenticates with the username and the password alone and
\* raises on failure; the society is looked up only after it has passed.
CustomAuthenticationFormClean(society_name, username, password) ==
    LET user_cache == authenticate(username, password, None).user
    IN  IF user_cache = NoUser THEN "invalid_login"
        ELSE IF ~users[user_cache].is_active THEN "inactive"
        ELSE IF society_name \notin DOMAIN society THEN "society_not_found"
        ELSE "none"

\* request.user: the session's backend loads the user. SocietyAuthBackend.get_user
\* returns the row of that primary key; ModelBackend.get_user returns it only while
\* the user is active.
RequestUser ==
    IF session.user \notin DOMAIN users THEN NoUser
    ELSE IF session.backend = "ModelBackend" /\ ~users[session.user].is_active THEN NoUser
    ELSE session.user

\* request.user.is_authenticated
IsAuthenticated == RequestUser # NoUser

\* custom_login_stock_service: the session afterwards and the response.
LoginResult(method, society_name, username, password) ==
    IF IsAuthenticated THEN [session |-> session, outcome |-> "already_authenticated"]
    ELSE IF method # "POST" THEN [session |-> session, outcome |-> "form"]
    ELSE LET error == CustomAuthenticationFormClean(society_name, username, password)
             auth == authenticate(username, password, society_name)
         IN  IF error # "none" THEN [session |-> session, outcome |-> error]
             ELSE IF auth.user = NoUser
             THEN [session |-> session, outcome |-> "invalid_credentials"]
             ELSE IF ~users[auth.user].is_staff /\ users[auth.user].society = None
             THEN [session |-> session, outcome |-> "no_society"]
             ELSE [session |-> auth, outcome |-> "logged_in"]

custom_login_stock_service(method, society_name, username, password) ==
    /\ LET r == LoginResult(method, society_name, username, password)
       IN  /\ session' = r.session
           /\ last' = Response("login", r.outcome)
    /\ UNCHANGED <<society, users, stock, drawers, placement, movements, refill, kinds,
                  object_users, usages, settings, today>>

\* custom_logout_stock_service, behind login_required
custom_logout_stock_service ==
    /\ IF ~IsAuthenticated
       THEN /\ last' = Response("logout", "login_required")
            /\ UNCHANGED session
       ELSE /\ session' = NoSession
            /\ last' = Response("logout", "logged_out")
    /\ UNCHANGED <<society, users, stock, drawers, placement, movements, refill, kinds,
                  object_users, usages, settings, today>>

\* ---------------------------------------------------------------- login specification
\* The AUTHENTICATION_BACKENDS of a project that uses SocietyAuthBackend: alone, or
\* beside Django's ModelBackend, in either order.
BackendSettings ==
    {<<"SocietyAuthBackend">>,
     <<"SocietyAuthBackend", "ModelBackend">>, <<"ModelBackend", "SocietyAuthBackend">>}

\* What a login form submits: "Z" names no society, "zed" no user, "px" is nobody's password.
SocietyNames == {"A", "B", "Z"}
Identifiers == {"ann", "Ann", "ann@x", "bob", "cy", "zed"}
Passwords == {"pa", "pb", "px"}

\* Societies A and B are registered, each with its administrator; A may have a
\* second user, created by its administrator.
InitAuth ==
    /\ society = [s \in Societies |-> SocietyRow("free", FALSE, FALSE)]
    /\ \E pw \in {"pa", "pb"}, member \in BOOLEAN :
         users = (1 :> UserRow("A", "ann", "ann@x", "pa", TRUE, TRUE, TRUE))
                 @@ (2 :> UserRow("B", "bob", "bob@x", pw, TRUE, TRUE, TRUE))
                 @@ (IF member THEN 3 :> UserRow("A", "cy", "cy@x", "pb", FALSE, TRUE, FALSE)
                     ELSE EmptyTable)
    /\ stock = EmptyTable
    /\ drawers = EmptyTable
    /\ placement = EmptyTable
    /\ movements = <<>>
    /\ refill = EmptyTable
    /\ kinds = EmptyTable
    /\ object_users = EmptyTable
    /\ usages = <<>>
    /\ session = NoSession
    /\ settings \in {SettingsRow(b) : b \in BackendSettings}
    /\ today = 0
    /\ handled = 0
    /\ last = NoRequest

\* The administrator flag a user-update form submits: the stored one.
StoredAdmin(pk) == IF pk \in DOMAIN users THEN users[pk].is_society_admin ELSE FALSE

NextAuth ==
    \/ Unmetered /\ \E sn \in SocietyNames, name \in Identifiers, pw \in Passwords :
          custom_login_stock_service("POST", sn, name, pw)
    \/ Unmetered /\ custom_login_stock_service("GET", None, None, None)
    \/ Unmetered /\ custom_logout_stock_service
    \/ Unmetered /\ IsAuthenticated /\ \E pk \in UserIds, active \in BOOLEAN :
          UserUpdateView(RequestUser, "POST", pk, StoredEmail(pk), StoredAdmin(pk), active)

SpecAuth == InitAuth /\ [][NextAuth]_vars

\* ---------------------------------------------------------------- tenants specification
\* What the forms of the tenants specification submit beside primary keys.
KindNames == {"Nut", "gear"}
ObjectUserNames == {"Lab", "shop"}
DrawerLetters == {"X", "y"}
ItemNames == {"bolt", "gear"}
\* The primary keys a request names: a row of A, a row of B, and the last one.
NamedIds == {1, 2, MaxRows}

\* Societies A and B each hold one row of every table, under primary key 1 for A and
\* 2 for B; primary key 3 names no row. B may have a ledger and a usage log already.
InitTenant ==
    /\ \E manage \in BOOLEAN :
         society = ("A" :> SocietyRow(IF manage THEN "premium" ELSE "free", manage, FALSE))
                   @@ ("B" :> SocietyRow("premium", TRUE, FALSE))
    /\ users = (1 :> UserRow("A", "ann", "ann@x", "pa", TRUE, TRUE, TRUE))
               @@ (2 :> UserRow("B", "bob", "bob@x", "pb", TRUE, TRUE, TRUE))
               @@ (3 :> UserRow("A", "cy", "cy@x", "pc", FALSE, TRUE, FALSE))
    /\ kinds = (1 :> [society |-> "A", name |-> "nut"]) @@ (2 :> [society |-> "B", name |-> "nut"])
    /\ object_users = (1 :> [society |-> "A", name |-> "lab"])
                      @@ (2 :> [society |-> "B", name |-> "lab"])
    /\ stock = (1 :> StockRow("A", "bolt", 1, 1, TRUE)) @@ (2 :> StockRow("B", "bolt", 2, 1, TRUE))
    /\ drawers = (1 :> DrawerRow("A", "cab", "x", 1)) @@ (2 :> DrawerRow("B", "cab", "x", 1))
    /\ placement = (<<1, 1>> :> 1) @@ (<<2, 2>> :> 1)
    /\ refill = (1 :> RefillRow("A", 1, 1, 0)) @@ (2 :> RefillRow("B", 2, 1, 0))
    /\ \/ movements = <<>> /\ usages = <<>>
       \/ /\ movements = <<Movement("B", 2, "in", 1, 2, 2, NoId)>>
          /\ usages = <<Usage("B", 2, 2, 1, 0, NoDate, 2)>>
    /\ session = NoSession
    /\ settings = SettingsRow(<<"SocietyAuthBackend", "ModelBackend">>)
    /\ today = 0
    /\ handled = 0
    /\ last = NoRequest

\* The users of society A make the requests.
Callers == {u \in DOMAIN users : users[u].society = "A"}

NextTenant ==
    \/ Metered /\ \E u \in Callers, i \in NamedIds, d \in NamedIds \cup {NoDrawer} :
          stock_out_stock_service(u, "POST", i, 1, d)
    \/ Metered /\ \E u \in Callers, i \in NamedIds, d \in NamedIds \cup {NoDrawer} :
          stock_in_stock_service(u, "POST", i, 1, d)
    \/ Metered /\ \E u \in Callers, m \in Methods, pk \in NamedIds :
          complete_refill_stock_service(u, m, pk)
    \/ Metered /\ \E u \in Callers, url_pk \in NamedIds \cup {NoId}, i \in NamedIds :
          refill_scheduler_stock_service(u, "POST", url_pk, i, today, 1)
    \/ Metered /\ \E u \in Callers, i \in NamedIds, ou \in NamedIds :
          add_stock_usage_stock_service(u, "POST", i, ou, 1, today, NoDate)
    \/ Metered /\ \E u \in Callers, m \in Methods, pk \in UserIds :
          UserUpdateView(u, m, pk, StoredEmail(pk), StoredAdmin(pk), FALSE)
    \/ Metered /\ \E u \in Callers, m \in Methods, pk \in UserIds : UserDeleteView(u, m, pk)
    \/ Metered /\ \E u \in Callers, name \in KindNames :
          stock_object_kind_list_stock_service(u, "POST", name)
    \/ Metered /\ \E u \in Callers, m \in Methods, pk \in NamedIds :
          StockObjectKindUpdateView(u, m, pk, "gear")
    \/ Metered /\ \E u \in Callers, m \in Methods, pk \in NamedIds :
          StockObjectKindDeleteView(u, m, pk)
    \/ Metered /\ \E u \in Callers, name \in ObjectUserNames :
          ObjectUserCreateView(u, "POST", name)
    \/ Metered /\ \E u \in Callers, m \in Methods, pk \in NamedIds :
          ObjectUserUpdateView(u, m, pk, "shop")
    \/ Metered /\ \E u \in Callers, m \in Methods, pk \in NamedIds :
          ObjectUserDeleteView(u, m, pk)
    \/ Metered /\ \E u \in Callers, letter \in DrawerLetters :
          manage_drawers_stock_service(u, "POST", "cab", letter, 1)
    \/ Metered /\ \E u \in Callers, m \in Methods, pk \in NamedIds :
          DrawerUpdateView(u, m, pk, "cab", "y", 1)
    \/ Metered /\ \E u \in Callers, m \in Methods, pk \in NamedIds : DrawerDeleteView(u, m, pk)
    \/ Metered /\ \E u \in Callers, i \in NamedIds, d \in NamedIds :
          assign_stock_to_drawer_stock_service(u, "POST", i, d, 1)
    \/ Metered /\ \E u \in Callers, kind \in NamedIds \cup {NoId}, name \in ItemNames :
          add_stock_object_stock_service(u, "POST", kind, name, 1, TRUE)
    \/ Metered /\ \E u \in Callers, m \in Methods, pk \in NamedIds, kind \in NamedIds :
          update_stock_object_stock_service(u, m, pk, kind, "gear", 1, TRUE)
    \/ Metered /\ \E u \in Callers, m \in Methods, pk \in NamedIds :
          delete_stock_object_stock_service(u, m, pk)

SpecTenant == InitTenant /\ [][NextTenant]_vars

\* ---------------------------------------------------------------- claims on stock
DrawerChoices == DrawerIds \cup {NoDrawer}

\* C1: a POST stock-out of quantity q on an item whose current_quantity is less
\* than q fails and leaves the items, the placements and the movement ledger as
\* they were.
C1_InsufficientStockOutHasNoEffect ==
    [][last'.op = "stock_out" =>
         \A u \in DOMAIN users, i \in DOMAIN stock, q \in Quantities, d \in DrawerChoices :
            (stock[i].current_quantity < q /\ stock_out_stock_service(u, "POST", i, q, d))
               => /\ UNCHANGED <<stock, placement, movements>>
                  /\ last'.outcome \in {"insufficient", "invalid"}]_vars

C1_Witness ==
    /\ last = Response("stock_out", "insufficient")
    /\ \E i \in DOMAIN stock : stock[i].current_quantity < MaxQty

\* All the writes of a stock-out of q of item i by user u naming drawer d.
AllStockOutWrites(u, i, q, d) ==
    LET soc == users[u].society
    IN  /\ i \in DOMAIN stock
        /\ stock' = [stock EXCEPT ![i].current_quantity = @ - q]
        /\ IF society[soc].can_manage_drawers /\ d # NoDrawer
           THEN /\ PlacementQty(placement', i, d) = PlacementQty(placement, i, d) - q
                /\ DOMAIN placement' \ {<<i, d>>} = DOMAIN placement \ {<<i, d>>}
                /\ \A k \in DOMAIN placement \ {<<i, d>>} : placement'[k] = placement[k]
           ELSE placement' = placement
        /\ movements' = Append(movements, Movement(soc, i, "out", q, u, d, NoId))

\* C2: a stock-out applies all of its writes (current_quantity less q, the named
\* drawer's placement less q when drawer management is enabled, one more
\* Movement of type out with quantity q) or none of them.
C2_StockOutAllOrNothing ==
    [][(last'.op = "stock_out" /\ ~UNCHANGED <<stock, placement, movements>>) =>
         \A u \in DOMAIN users, m \in Methods, i \in ItemIds, q \in Quantities, d \in DrawerChoices :
            stock_out_stock_service(u, m, i, q, d) => AllStockOutWrites(u, i, q, d)]_vars

C2_Witness ==
    /\ last = Response("stock_out", "ok")
    /\ Len(movements) = 1
    /\ movements[1].movement_type = "out"
    /\ movements[1].quantity > 0
    /\ movements[1].drawer_involved # NoDrawer
    /\ society[movements[1].society].can_manage_drawers

\* C3: with drawer management enabled, a stock-out of q <= current_quantity that
\* names a drawer holding less than q of the item (or no placement row at all) is
\* rejected as a whole: no item, placement or movement row is created or changed.
C3_DrawerShortStockOutRejected ==
    [][last'.op = "stock_out" =>
         \A u \in DOMAIN users, i \in DOMAIN stock, q \in Quantities, d \in DOMAIN drawers :
            ( /\ society[users[u].society].can_manage_drawers
              /\ StockMovementFormValid(users[u].society, i, q, d)
              /\ q <= stock[i].current_quantity
              /\ PlacementQty(placement, i, d) < q
              /\ stock_out_stock_service(u, "POST", i, q, d) )
               => /\ UNCHANGED <<stock, placement, movements>>
                  /\ last'.outcome = "drawer_insufficient"]_vars

C3_Witness ==
    /\ last = Response("stock_out", "drawer_insufficient")
    /\ placement = EmptyTable
    /\ movements = <<>>

\* C4: a POST completing a pending refill schedule adds quantity_to_refill to the
\* item, marks the schedule completed today and appends one Movement of type in
\* with that quantity; a request for a completed schedule changes nothing.
C4_RefillCompletedOnce ==
    [][\A u \in DOMAIN users, m \in Methods, pk \in DOMAIN refill :
          ( /\ last'.op = "complete_refill"
            /\ refill[pk].society = users[u].society
            /\ complete_refill_stock_service(u, m, pk) )
             => LET item == refill[pk].stock_object
                    q == refill[pk].quantity_to_refill
                IN  IF refill[pk].is_completed
                    THEN UNCHANGED <<stock, movements, refill>>
                    ELSE m = "POST" =>
                           /\ stock' = [stock EXCEPT ![item].current_quantity = @ + q]
                           /\ refill'[pk].is_completed
                           /\ refill'[pk].completed_date = today
                           /\ movements' = Append(movements,
                                  Movement(users[u].society, item, "in", q, u, NoDrawer, pk))]_vars

C4_Witness ==
    /\ last = Response("complete_refill", "already_completed")
    /\ \E pk \in DOMAIN refill :
         /\ refill[pk].is_completed
         /\ refill[pk].completed_date < today
         /\ Len(movements) = 1
         /\ movements[1].schedule = pk

\* ---------------------------------------------------------------- claims on users
\* C8: in every reachable state every free-tier society has at least one user
\* with is_society_admin = true.
C8_FreeTierKeepsAnAdmin ==
    \A s \in DOMAIN society :
        society[s].subscription_level = "free" => AdminsOf(users, s) # {}

\* C9: on a free-tier society, a user-update submission that takes
\* is_society_admin away from the only administrator is rejected and leaves the
\* stored user rows as they were.
C9_SoleAdminDemotionRejected ==
    [][\A actor \in DOMAIN users, pk \in DOMAIN users, active \in BOOLEAN :
          ( /\ last'.op = "user_update"
            /\ society[users[pk].society].subscription_level = "free"
            /\ AdminsOf(users, users[pk].society) = {pk}
            /\ UserUpdateView(actor, "POST", pk, StoredEmail(pk), FALSE, active) )
             => /\ users' = users
                /\ last'.outcome \in {"invalid", "denied", "not_found"}]_vars

C9_Witness ==
    /\ last = Response("user_update", "invalid")
    /\ society["A"].subscription_level = "free"
    /\ Cardinality(RowsOf(users, "A")) = 1
    /\ Cardinality(AdminsOf(users, "A")) = 1

WithinFreeLimits(table, s) ==
    /\ Cardinality(AdminsOf(table, s)) <= 1
    /\ Cardinality(RowsOf(table, s)) <= 2

\* C10: on a free-tier society with at most 1 administrator and at most 2 users,
\* no user-create or user-update request leads to more than 1 administrator or
\* more than 2 users.
C10_FreeLimitsKeptByCreateAndUpdate ==
    [][\A s \in DOMAIN society :
          ( /\ last'.op \in {"user_create", "user_update"}
            /\ society[s].subscription_level = "free"
            /\ WithinFreeLimits(users, s) )
             => WithinFreeLimits(users', s)]_vars

C10_Witness ==
    /\ last.op \in {"user_create", "user_update"}
    /\ last.outcome = "invalid"
    /\ society["A"].subscription_level = "free"
    /\ Cardinality(AdminsOf(users, "A")) = 1
    /\ Cardinality(RowsOf(users, "A")) = 2

\* ---------------------------------------------------------------- claims on tenants
\* The records a society owns, table by table; a placement belongs to the society of
\* its item and of its drawer.
RecordsOf(soc) ==
    LET Owned(table) == [k \in {x \in DOMAIN table : table[x].society = soc} |-> table[k]]
        OwnedRows(rows) == SelectSeq(rows, LAMBDA row : row.society = soc)
    IN  [users |-> Owned(users), kinds |-> Owned(kinds), object_users |-> Owned(object_users),
         stock |-> Owned(stock), drawers |-> Owned(drawers), refill |-> Owned(refill),
         placement |-> [k \in {x \in DOMAIN placement :
                                 \/ x[1] \in DOMAIN stock /\ stock[x[1]].society = soc
                                 \/ x[2] \in DOMAIN drawers /\ drawers[x[2]].society = soc}
                          |-> placement[k]],
         movements |-> OwnedRows(movements), usages |-> OwnedRows(usages)]

\* The primary keys of the rows of a table that belong to another society than u's.
Foreign(table, u) == {k \in DOMAIN table : table[k].society # users[u].society}

\* No table changes.
NoWrite ==
    UNCHANGED <<society, users, stock, drawers, placement, movements, refill, kinds,
                object_users, usages>>

\* A request of u whose URL names a row of another society, to a view that tests
\* that the caller is an administrator of its society.
ForeignKeyToAdminView(u) ==
    \E m \in Methods :
       \/ /\ last'.op = "user_update"
          /\ \E pk \in Foreign(users, u) :
                UserUpdateView(u, m, pk, StoredEmail(pk), StoredAdmin(pk), FALSE)
       \/ last'.op = "user_delete" /\ \E pk \in Foreign(users, u) : UserDeleteView(u, m, pk)
       \/ /\ last'.op = "kind_update"
          /\ \E pk \in Foreign(kinds, u) : StockObjectKindUpdateView(u, m, pk, "gear")
       \/ /\ last'.op = "kind_delete"
          /\ \E pk \in Foreign(kinds, u) : StockObjectKindDeleteView(u, m, pk)
       \/ /\ last'.op = "object_user_update"
          /\ \E pk \in Foreign(object_users, u) : ObjectUserUpdateView(u, m, pk, "shop")
       \/ /\ last'.op = "object_user_delete"
          /\ \E pk \in Foreign(object_users, u) : ObjectUserDeleteView(u, m, pk)

\* The same, to a view that tests that the caller may manage drawers.
ForeignKeyToDrawerView(u) ==
    \E m \in Methods, pk \in Foreign(drawers, u) :
       \/ last'.op = "drawer_update" /\ DrawerUpdateView(u, m, pk, "cab", "y", 1)
       \/ last'.op = "drawer_delete" /\ DrawerDeleteView(u, m, pk)

\* The same, to a view that any user of a society may call.
ForeignKeyToView(u) ==
    \E m \in Methods :
       \/ /\ last'.op = "stock_update"
          /\ \E pk \in Foreign(stock, u), kind \in NamedIds :
                update_stock_object_stock_service(u, m, pk, kind, "gear", 1, TRUE)
       \/ /\ last'.op = "stock_delete"
          /\ \E pk \in Foreign(stock, u) : delete_stock_object_stock_service(u, m, pk)
       \/ /\ last'.op = "refill_create"
          /\ \E pk \in Foreign(stock, u), i \in NamedIds :
                refill_scheduler_stock_service(u, "POST", pk, i, today, 1)
       \/ /\ last'.op = "complete_refill"
          /\ \E pk \in Foreign(refill, u) : complete_refill_stock_service(u, m, pk)

\* A form submitted by u in which a field names a row of another society.
ForeignKeyInForm(u) ==
    \/ /\ last'.op \in {"stock_out", "stock_in", "assign_drawer"}
       /\ \E i \in NamedIds, d \in NamedIds \cup {NoDrawer} :
             /\ i \in Foreign(stock, u) \/ d \in Foreign(drawers, u)
             /\ \/ stock_out_stock_service(u, "POST", i, 1, d)
                \/ stock_in_stock_service(u, "POST", i, 1, d)
                \/ d # NoDrawer /\ assign_stock_to_drawer_stock_service(u, "POST", i, d, 1)
    \/ /\ last'.op = "usage_add"
       /\ \E i \in NamedIds, ou \in NamedIds :
             /\ i \in Foreign(stock, u) \/ ou \in Foreign(object_users, u)
             /\ add_stock_usage_stock_service(u, "POST", i, ou, 1, today, NoDate)
    \/ /\ last'.op = "refill_create"
       /\ \E url_pk \in NamedIds \cup {NoId}, i \in Foreign(stock, u) :
             refill_scheduler_stock_service(u, "POST", url_pk, i, today, 1)
    \/ /\ last'.op = "stock_add"
       /\ \E kind \in Foreign(kinds, u), name \in ItemNames :
             add_stock_object_stock_service(u, "POST", kind, name, 1, TRUE)
    \/ /\ last'.op = "stock_update"
       /\ \E kind \in Foreign(kinds, u), pk \in NamedIds :
             update_stock_object_stock_service(u, "POST", pk, kind, "gear", 1, TRUE)

C6_WrongTenantLooksLikeWrongPassword ==
    [][last'.op = "login" =>
         \A u \in DOMAIN users :
         \A sn \in SocietyNames \ {users[u].society}, wrong \in Passwords \ {users[u].password} :
            ( /\ ~IsAuthenticated
              /\ custom_login_stock_service("POST", sn, users[u].username, users[u].password) )
               => /\ last'.outcome # "logged_in"
                  /\ last'.outcome =
                       LoginResult("POST", users[u].society, users[u].username, wrong).outcome]_vars

\* C7: SocietyAuthBackend.authenticate returns a user only if that user is active.
C7_AuthenticateReturnsOnlyActiveUsers ==
    \A sn \in SocietyNames, name \in Identifiers, pw \in Passwords :
       LET user == SocietyAuthBackend_authenticate(name, pw, sn)
       IN  user # NoUser => users[user].is_active

\* ---------------------------------------------------------------- claims on plan limits
\* C11: in every reachable state every society has at most max_admins
\* administrators and at most max_users users of its current subscription level
\* (free 1/2, basic 2/10, premium unlimited), also after a change of level.
C11_TierLimitsHold ==
    \A s \in DOMAIN society :
        LET limits == SUBSCRIPTION_LIMITS[society[s].subscription_level]
        IN  /\ ~Exceeds(Cardinality(AdminsOf(users, s)), limits.max_admins)
            /\ ~Exceeds(Cardinality(RowsOf(users, s)), limits.max_users)

\* ---------------------------------------------------------------- plan specification
\* Society A as registered: on the free plan, without drawer features, with its
\* administrator, a member and one stock item.
InitPlan ==
    /\ society = ("A" :> SocietyRow("free", FALSE, FALSE))
    /\ users = (1 :> UserRow("A", "ann", "ann@x", "pa", TRUE, TRUE, TRUE))
               @@ (2 :> UserRow("A", "cy", "cy@x", "pc", FALSE, TRUE, FALSE))
    /\ stock = (1 :> StockRow("A", "bolt", NoId, 1, TRUE))
    /\ drawers = EmptyTable
    /\ placement = EmptyTable
    /\ movements = <<>>
    /\ refill = EmptyTable
    /\ today = 0
    /\ last = NoRequest
    /\ InitRest

NextPlan ==
    \/ Unmetered /\ \E actor \in DOMAIN users, plan \in Levels \cup {"gold"} :
          fake_payment_view(actor, plan)
    \/ Unmetered /\ \E actor \in DOMAIN users, level \in Levels, manage \in BOOLEAN, shows \in BOOLEAN :
          society_settings_stock_service(actor, "POST", level, manage, shows)
    \/ Unmetered /\ \E actor \in DOMAIN users :
          society_settings_stock_service(actor, "GET", "free", FALSE, FALSE)
    \/ Unmetered /\ \E u \in DOMAIN users, letter \in DrawerLetters :
          manage_drawers_stock_service(u, "POST", "cab", letter, 1)
    \/ Unmetered /\ \E u \in DOMAIN users, d \in RowIds :
          assign_stock_to_drawer_stock_service(u, "POST", 1, d, 1)

SpecPlan == InitPlan /\ [][NextPlan]_vars

\* C16: after a change of a society's subscription level, a society now on the free
\* plan has can_manage_drawers and shows_drawers_in_list false, a society now on the
\* basic plan has shows_drawers_in_list false, and the change leaves the users, the
\* stock items, the drawers and the placements as they were.
C16_TierChangeDowngradesFlags ==
    [][\A s \in DOMAIN society :
          society'[s].subscription_level # society[s].subscription_level
             => /\ society'[s].subscription_level = "free"
                     => /\ ~society'[s].can_manage_drawers
                        /\ ~society'[s].shows_drawers_in_list
                /\ society'[s].subscription_level = "basic"
                     => ~society'[s].shows_drawers_in_list
                /\ UNCHANGED <<users, stock, drawers, placement>>]_vars

\* ---------------------------------------------------------------- claims on stock in
\* The placement rows after q more of item i were put in drawer d.
PlacementIncreased(i, d, q) ==
    /\ <<i, d>> \in DOMAIN placement'
    /\ placement'[<<i, d>>] = PlacementQty(placement, i, d) + q
    /\ DOMAIN placement' \ {<<i, d>>} = DOMAIN placement \ {<<i, d>>}
    /\ \A k \in DOMAIN placement \ {<<i, d>>} : placement'[k] = placement[k]

\* C13 as stated: a valid stock-in of q adds exactly q to the item's
\* current_quantity, appends exactly one Movement of type in with quantity q and,
\* if it names a drawer, creates the placement row when absent and adds exactly q
\* to it; it never fails for insufficiency.
C13_StockInAddsExactly ==
    [][last'.op = "stock_in" =>
         \A u \in DOMAIN users, i \in DOMAIN stock, q \in Quantities, d \in DrawerChoices :
            ( /\ StockMovementFormValid(users[u].society, i, q, d)
              /\ stock_in_stock_service(u, "POST", i, q, d) )
               => /\ last'.outcome = "ok"
                  /\ stock' = [stock EXCEPT ![i].current_quantity = @ + q]
                  /\ movements' = Append(movements,
                         Movement(users[u].society, i, "in", q, u, d, NoId))
                  /\ IF d # NoDrawer THEN PlacementIncreased(i, d, q)
                     ELSE placement' = placement]_vars

\* C13, amended: a valid stock-in of q adds exactly q to the item's
\* current_quantity, appends exactly one Movement of type in with quantity q and,
\* if it names a drawer and the society has drawer management enabled, creates the
\* placement row when absent and adds exactly q to it; with drawer management
\* disabled the placements stay as they were; it never fails for insufficiency.
C13_StockInAddsExactlyWhenManaged ==
    [][last'.op = "stock_in" =>
         \A u \in DOMAIN users, i \in DOMAIN stock, q \in Quantities, d \in DrawerChoices :
            \/ /\ last'.outcome = "ok"
               /\ stock' = [stock EXCEPT ![i].current_quantity = @ + q]
               /\ movements' = Append(movements,
                      Movement(users[u].society, i, "in", q, u, d, NoId))
               /\ IF d # NoDrawer /\ society[users[u].society].can_manage_drawers
                  THEN PlacementIncreased(i, d, q)
                  ELSE placement' = placement
            \/ ~StockMovementFormValid(users[u].society, i, q, d)
            \/ ~stock_in_stock_service(u, "POST", i, q, d)]_vars

\* A stock-in of a positive quantity into a drawer that already held the item.
C13_Witness ==
    /\ last = Response("stock_in", "ok")
    /\ Len(movements) = 1
    /\ movements[1].movement_type = "in"
    /\ movements[1].quantity > 0
    /\ movements[1].drawer_involved # NoDrawer
    /\ society[movements[1].society].can_manage_drawers
    /\ PlacementQty(placement, movements[1].stock_object, movements[1].drawer_involved)
          > movements[1].quantity

\* C14: a stock-in of q followed by a stock-out of q of the same item, or a
\* stock-out of q followed by a stock-in of q, when both succeed, leaves the item's
\* current_quantity at its value before the pair.
C14_InOutRoundTrip ==
    [][last'.outcome = "ok" =>
         \A u \in DOMAIN users, i \in DOMAIN stock, q \in Quantities :
         \A d \in DrawerChoices, u2 \in DOMAIN users, d2 \in DrawerChoices :
            /\ ( /\ last'.op = "stock_in"
                 /\ stock_in_stock_service(u, "POST", i, q, d)
                 /\ StockOutResult(u2, "POST", i, q, d2)'.outcome = "ok" )
                  => StockOutResult(u2, "POST", i, q, d2)'.tables.stock[i].current_quantity
                        = stock[i].current_quantity
            /\ ( /\ last'.op = "stock_out"
                 /\ stock_out_stock_service(u, "POST", i, q, d)
                 /\ StockInResult(u2, "POST", i, q, d2)'.outcome = "ok" )
                  => StockInResult(u2, "POST", i, q, d2)'.tables.stock[i].current_quantity
                        = stock[i].current_quantity]_vars

\* A stock-in of a positive quantity has succeeded and a stock-out of the same
\* quantity of the same item would succeed now.
C14_Witness ==
    /\ last = Response("stock_in", "ok")
    /\ Len(movements) = 1
    /\ movements[1].movement_type = "in"
    /\ movements[1].quantity > 0
    /\ \E u \in DOMAIN users :
          StockOutResult(u, "POST", movements[1].stock_object, movements[1].quantity,
                         NoDrawer).outcome = "ok"

\* ---------------------------------------------------------------- claims on the ledger
\* C18: every Movement row of every reachable state has a quantity greater than 0,
\* whether a stock-in, a stock-out or a refill completion created it.
C18_MovementQuantityPositive ==
    \A n \in DOMAIN movements : movements[n].quantity > 0

\* ---------------------------------------------------------------- refill specification
\* Society A holds item 1, active, with a pending refill schedule, and item 2, active
\* or not; its administrator and a member are served MaxRequests requests while the
\* calendar advances.
InitRefill ==
    /\ society = ("A" :> SocietyRow("free", FALSE, FALSE))
    /\ users = (1 :> UserRow("A", "ann", "ann@x", "pa", TRUE, TRUE, TRUE))
               @@ (2 :> UserRow("A", "cy", "cy@x", "pc", FALSE, TRUE, FALSE))
    /\ \E active \in BOOLEAN :
         stock = (1 :> StockRow("A", "bolt", NoId, 0, TRUE))
                 @@ (2 :> StockRow("A", "gear", NoId, 0, active))
    /\ drawers = EmptyTable
    /\ placement = EmptyTable
    /\ movements = <<>>
    /\ refill = (1 :> RefillRow("A", 1, 1, 0))
    /\ today = 0
    /\ last = NoRequest
    /\ InitRest

\* The name an item-update form submits: the stored one.
StoredName(pk) == IF pk \in DOMAIN stock THEN stock[pk].name ELSE "bolt"

NextRefill ==
    \/ Metered /\ \E u \in DOMAIN users, url_pk \in NamedIds \cup {NoId}, i \in NamedIds :
       \E day \in 0 .. MaxDay, q \in {0, 1} :
          refill_scheduler_stock_service(u, "POST", url_pk, i, day, q)
    \/ Metered /\ \E u \in DOMAIN users, url_pk \in NamedIds \cup {NoId} :
          refill_scheduler_stock_service(u, "GET", url_pk, NoId, NoDate, 0)
    \/ Metered /\ \E u \in DOMAIN users, m \in Methods, pk \in RowIds :
          complete_refill_stock_service(u, m, pk)
    \/ Metered /\ \E u \in DOMAIN users, pk \in NamedIds, active \in BOOLEAN :
          update_stock_object_stock_service(u, "POST", pk, NoId, StoredName(pk), 0, active)
    \/ Metered /\ \E u \in DOMAIN users, m \in Methods, pk \in NamedIds :
          delete_stock_object_stock_service(u, m, pk)
    \/ Unmetered /\ NextDay

SpecRefill == InitRefill /\ [][NextRefill]_vars

\* ---------------------------------------------------------------- claims on refill schedules
\* C15: a refill schedule is created pending, and a completed schedule stays
\* completed with the same completed_date in every later state in which it exists,
\* whatever requests are made, by POST or GET, by any user of the society.
C15_RefillLifecycleOneWay ==
    [][/\ \A pk \in DOMAIN refill' \ DOMAIN refill : ~refill'[pk].is_completed
       /\ \A pk \in DOMAIN refill \cap DOMAIN refill' :
             refill[pk].is_completed
                => /\ refill'[pk].is_completed
                   /\ refill'[pk].completed_date = refill[pk].completed_date]_vars

\* A schedule completed on an earlier day has been asked to complete again.
C15_Witness ==
    /\ last = Response("complete_refill", "already_completed")
    /\ \E pk \in DOMAIN refill :
          /\ refill[pk].is_completed
          /\ refill[pk].completed_date # NoDate
          /\ refill[pk].completed_date < today

\* C20: a refill-schedule submission whose scheduled_date is before today is
\* rejected and creates no row; every schedule that is created is pending and
\* references an active stock item of the caller's society, on the general URL and
\* on the URL of one item.
C20_RefillCreatedPendingForActiveItem ==
    [][last'.op = "refill_create" =>
         /\ \A pk \in DOMAIN refill' \ DOMAIN refill :
               /\ ~refill'[pk].is_completed
               /\ refill'[pk].stock_object \in RowsOf(stock, refill'[pk].society)
               /\ stock[refill'[pk].stock_object].is_active
         /\ \A u \in DOMAIN users, url_pk \in NamedIds \cup {NoId}, i \in NamedIds :
            \A day \in 0 .. MaxDay, q \in {0, 1} :
               (day < today /\ refill_scheduler_stock_service(u, "POST", url_pk, i, day, q))
                  => /\ refill' = refill
                     /\ last'.outcome \in {"invalid", "not_found"}]_vars

\* ---------------------------------------------------------------- overlapping requests
\* A request of one of the four views that change quantities.
Request(kind, u, item, q, d) == [kind |-> kind, u |-> u, item |-> item, q |-> q, d |-> d]

\* The rows a request saves, computed from the rows it read.
Writes(st, pl, mv, us, rf, outcome) ==
    [stock |-> st, placement |-> pl, movements |-> mv, usages |-> us, refill |-> rf,
     outcome |-> outcome]

NoWrites(outcome) == Writes(EmptyTable, EmptyTable, <<>>, <<>>, EmptyTable, outcome)

\* What each view saves inside its transaction.atomic() block: stock_object.save(),
\* placement.save(), stock_movement.save() / stock_usage.save() / schedule.save().
Effect(req) ==
    LET soc == users[req.u].society
        useDrawer == society[soc].can_manage_drawers /\ req.d # NoDrawer
    IN  CASE req.kind \in {"stock_out", "stock_in"} ->
               LET r == IF req.kind = "stock_out"
                        THEN StockOutResult(req.u, "POST", req.item, req.q, req.d)
                        ELSE StockInResult(req.u, "POST", req.item, req.q, req.d)
               IN  IF r.outcome # "ok" THEN NoWrites(r.outcome)
                   ELSE Writes(req.item :> r.tables.stock[req.item],
                               IF useDrawer
                               THEN <<req.item, req.d>> :> r.tables.placement[<<req.item, req.d>>]
                               ELSE EmptyTable,
                               <<r.tables.movements[Len(r.tables.movements)]>>,
                               <<>>, EmptyTable, "ok")
          [] req.kind = "usage" ->
               IF ~StockUsageFormValid(soc, req.item, req.d, req.q, today, NoDate)
               THEN NoWrites("invalid")
               ELSE IF ~SufficientForUsage(stock[req.item].current_quantity, req.q)
               THEN NoWrites("insufficient")
               ELSE Writes(req.item :> [stock[req.item] EXCEPT !.current_quantity = @ - req.q],
                           EmptyTable, <<>>,
                           <<Usage(soc, req.item, req.d, req.q, today, NoDate, req.u)>>,
                           EmptyTable, "ok")
          [] OTHER ->
               IF req.item \notin RowsOf(refill, soc) THEN NoWrites("not_found")
               ELSE IF ~CanComplete("POST", refill[req.item]) THEN NoWrites("already_completed")
               ELSE LET item == refill[req.item].stock_object
                        q == refill[req.item].quantity_to_refill
                    IN  Writes(item :> [stock[item] EXCEPT !.current_quantity = @ + q],
                               EmptyTable,
                               <<Movement(soc, item, "in", q, req.u, NoDrawer, req.item)>>,
                               <<>>,
                               req.item :> MarkCompleted(refill[req.item], today), "ok")

\* Two requests served at the same time by two workers: each validates its form and
\* checks the quantities on the rows as they were before either commits (no view
\* locks a row), then both commit, the first before the second. A save() writes
\* the whole row.
\* Two completions of one schedule both save that schedule's row first and are
\* ordered by it: OverlappingCompletions.
Race(first, second) ==
    LET e1 == Effect(first)
        e2 == Effect(second)
    IN  /\ first.u \in DOMAIN users
        /\ second.u \in DOMAIN users
        /\ e1.outcome = "ok"
        /\ e2.outcome = "ok"
        /\ ~(first.kind = "complete_refill" /\ second.kind = "complete_refill"
               /\ first.item = second.item)
        /\ stock' = e2.stock @@ e1.stock @@ stock
        /\ placement' = e2.placement @@ e1.placement @@ placement
        /\ movements' = movements \o e1.movements \o e2.movements
        /\ usages' = usages \o e1.usages \o e2.usages
        /\ refill' = e2.refill @@ e1.refill @@ refill
        /\ last' = Response("race", "ok")
        /\ \A i \in DOMAIN stock' : stock'[i].current_quantity <= MaxQty
        /\ Len(movements') <= MaxMovements
        /\ Len(usages') <= MaxUsages
        /\ UNCHANGED <<society, users, drawers, today, kinds, object_users, session, settings>>

\* ---------------------------------------------------------------- ledger specification
\* Society A, with or without drawer management, holds item 1, drawer 1, an object
\* user and a pending refill schedule; its administrator and a member make the
\* requests, one at a time or two at once.
InitLedger ==
    /\ \E manage \in BOOLEAN :
         society = ("A" :> SocietyRow(IF manage THEN "premium" ELSE "free", manage, FALSE))
    /\ users = (1 :> UserRow("A", "ann", "ann@x", "pa", TRUE, TRUE, TRUE))
               @@ (2 :> UserRow("A", "cy", "cy@x", "pc", FALSE, TRUE, FALSE))
    /\ \E q0 \in 0 .. MaxQty :
         /\ stock = (1 :> StockRow("A", "bolt", NoId, q0, TRUE))
         /\ \/ placement = EmptyTable
            \/ \E p \in 0 .. q0 : placement = (<<1, 1>> :> p)
    /\ drawers = (1 :> DrawerRow("A", "cab", "a", 1))
    /\ movements = <<>>
    /\ refill = (1 :> RefillRow("A", 1, 1, 0))
    /\ kinds = EmptyTable
    /\ object_users = (1 :> [society |-> "A", name |-> "lab"])
    /\ usages = <<>>
    /\ session = NoSession
    /\ settings = SettingsRow(<<"SocietyAuthBackend", "ModelBackend">>)
    /\ today = 0
    /\ handled = 0
    /\ last = NoRequest

\* The member of the society moves the stock, its administrator deletes rows.
Movers == {u \in DOMAIN users : ~users[u].is_society_admin}

\* The quantities the requests name: nothing, one, and all an item may hold.
LedgerQuantities == {0, 1, MaxQty}

\* The requests that may overlap; d is the drawer of a movement, the object user of
\* a usage; item is the schedule of a refill completion.
RaceRequests ==
    {Request(kind, u, 1, q, d) :
        kind \in {"stock_out", "stock_in", "usage", "complete_refill"},
        u \in Movers, q \in {1}, d \in {NoDrawer, 1}}

\* The requests whose form is valid and whose quantity checks pass on the rows as
\* they are now.
Granted == {req \in RaceRequests : Effect(req).outcome = "ok"}

\* The requests of the four views that change quantities, one at a time.
NextQuantities ==
    \/ Metered /\ \E u \in Movers, q \in LedgerQuantities, d \in {NoDrawer, 1} :
          stock_out_stock_service(u, "POST", 1, q, d)
    \/ Metered /\ \E u \in Movers, q \in LedgerQuantities, d \in {NoDrawer, 1} :
          stock_in_stock_service(u, "POST", 1, q, d)
    \/ Metered /\ \E u \in Movers, ou \in {1, 2}, q \in LedgerQuantities :
          add_stock_usage_stock_service(u, "POST", 1, ou, q, today, NoDate)
    \/ Metered /\ \E u \in Movers :
          add_stock_usage_stock_service(u, "GET", NoId, NoId, 0, NoDate, NoDate)
    \/ Metered /\ \E u \in Movers, m \in Methods : complete_refill_stock_service(u, m, 1)

NextLedger ==
    \/ NextQuantities
    \/ Metered /\ \E u \in DOMAIN users \ Movers : delete_stock_object_stock_service(u, "POST", 1)
    \/ Metered /\ \E u \in DOMAIN users \ Movers : DrawerDeleteView(u, "POST", 1)
    \/ Metered /\ \E u \in DOMAIN users \ Movers, pk \in DOMAIN users : UserDeleteView(u, "POST", pk)

NextRace ==
    \/ NextQuantities
    \/ Metered /\ \E first \in Granted, second \in Granted : Race(first, second)

SpecRace == InitLedger /\ [][NextRace]_vars

SpecLedger == InitLedger /\ [][NextLedger]_vars

\* ---------------------------------------------------------------- claims on quantities
\* C12: a usage-log request for quantity q of an item fails when the item's
\* current_quantity is less than q, leaving current_quantity as it was and creating
\* no Usage row; otherwise current_quantity decreases by exactly q and exactly one
\* Usage row is appended; never one without the other.
C12_UsageAllOrNothing ==
    [][last'.op = "usage_add" =>
         \A u \in DOMAIN users, i \in DOMAIN stock, ou \in DOMAIN object_users :
         \A q \in LedgerQuantities :
            ( /\ StockUsageFormValid(users[u].society, i, ou, q, today, NoDate)
              /\ add_stock_usage_stock_service(u, "POST", i, ou, q, today, NoDate) )
               => IF stock[i].current_quantity < q
                  THEN /\ UNCHANGED <<stock, usages>>
                       /\ last'.outcome = "insufficient"
                  ELSE /\ stock' = [stock EXCEPT ![i].current_quantity = @ - q]
                       /\ usages' = Append(usages,
                              Usage(users[u].society, i, ou, q, today, NoDate, u))
                       /\ last'.outcome = "ok"]_vars

\* A usage was logged, and a second one for more than is left has been refused.
C12_Witness ==
    /\ last = Response("usage_add", "insufficient")
    /\ Len(usages) = 1
    /\ usages[1].quantity_used > 0
    /\ usages[1].stock_object \in DOMAIN stock
    /\ stock[usages[1].stock_object].current_quantity < usages[1].quantity_used

\* C17: the movement ledger is append-only: no request, deleting a stock item, a
\* drawer or a user included, removes a Movement row or changes one of its fields.
C17_LedgerAppendOnly ==
    [][/\ Len(movements') >= Len(movements)
       /\ \A n \in DOMAIN movements : movements'[n] = movements[n]]_vars

\* C19: in every reachable state every stock item has current_quantity >= 0 and
\* every placement has quantity >= 0, after any sequence and any overlap of
\* stock-in, stock-out, usage-log and refill-completion requests.
C19_QuantitiesNeverNegative ==
    /\ \A i \in DOMAIN stock : stock[i].current_quantity >= 0
    /\ \A k \in DOMAIN placement : placement[k] >= 0

\* A stock-out from a drawer and a usage of the same item were served at the same
\* time and emptied the item and the drawer.
C19_Witness ==
    /\ last = Response("race", "ok")
    /\ Len(movements) = 1
    /\ movements[1].movement_type = "out"
    /\ movements[1].drawer_involved # NoDrawer
    /\ Len(usages) = 1
    /\ usages[1].stock_object = movements[1].stock_object
    /\ stock[movements[1].stock_object].current_quantity = 0
    /\ PlacementQty(placement, movements[1].stock_object, movements[1].drawer_involved) = 0
    /\ society[movements[1].society].can_manage_drawers

\* ---------------------------------------------------------------- claims on overlapping requests
\* The change of current_quantity a committed request stands for: plus the quantity
\* of a stock-in or of the completed schedule, minus that of a stock-out or usage.
SignedQuantity(req) ==
    CASE req.kind = "stock_in" -> req.q
      [] req.kind = "stock_out" -> 0 - req.q
      [] req.kind = "usage" -> 0 - req.q
      [] OTHER -> refill[req.item].quantity_to_refill

\* C21: no lost update: when two stock-affecting requests on the same item overlap
\* and both commit, the item's final current_quantity is its initial value plus
\* the quantities of the committed ins and refills minus the quantities of the
\* committed outs and usages.
C21_NoLostUpdate ==
    [][last'.op = "race" =>
         \A first \in Granted, second \in Granted :
             Race(first, second) =>
                 stock'[1].current_quantity =
                     stock[1].current_quantity + SignedQuantity(first) + SignedQuantity(second)]_vars

\* ---------------------------------------------------------------- refill prediction
\* timedelta(days=90) and the divisor of daily_usage = total_used_in_90_days / 90.0
NinetyDays == 90

\* elif days_until_empty <= 7 / elif days_until_empty <= 14
UrgentDays == 7

SoonDays == 14

\* date.max, the sort key of a row whose predicted_refill_date is a text
DateMax == 100000

\* A StockObject row with its refill threshold, a StockUsage row with its
\* auto_now_add timestamp (the day it was logged).
WithMinimum(row, minimum) == row @@ [minimum_quantity |-> minimum]

LoggedAt(row, day) == row @@ [logged_at |-> day]

\* StockUsage.objects.filter(society, stock_object, logged_at__gte=ninety_days_ago)
\*     .aggregate(Sum('quantity_used'))['total_quantity'] or 0
RECURSIVE SumUsedFrom(_, _, _, _)
SumUsedFrom(rows, soc, item, since) ==
    IF rows = <<>> THEN 0
    ELSE LET r == Head(rows)
             counted == r.society = soc /\ r.stock_object = item /\ r.logged_at >= since
         IN  (IF counted THEN r.quantity_used ELSE 0) + SumUsedFrom(Tail(rows), soc, item, since)

total_used_in_90_days(soc, item) == SumUsedFrom(usages, soc, item, today - NinetyDays)

\* days_until_empty <= n, for days_until_empty = current_quantity / (total / 90.0)
DaysUntilEmptyAtMostLoose(q, total, n) == q * NinetyDays <= (n + 1) * total

DaysUntilEmptyAtMost(q, total, n) == q * NinetyDays <= n * total

\* int(days_until_empty); the double-precision quotient of the quantities drawn
\* below truncates to the integer quotient.
IntDaysUntilEmpty(q, total) == (q * NinetyDays) \div total

DateValue(day) == [is_date |-> TRUE, date |-> day, text |-> ""]

TextValue(text) == [is_date |-> FALSE, date |-> NoDate, text |-> text]

\* The body of the loop over the active items: one entry of predictions_list. The
\* branch for daily_usage = 0 with total_used_in_90_days > 0 is never taken, a
\* positive integer divided by 90.0 being positive.
Prediction(item) ==
    LET so == stock[item]
        q == so.current_quantity
        total == total_used_in_90_days(so.society, item)
        dated == DateValue(today + IntDaysUntilEmpty(q, total))
        outcome ==
            IF total > 0
            THEN IF q <= 0 THEN <<TextValue("immediate_refill"), "zero_stock">>
                 ELSE IF DaysUntilEmptyAtMost(q, total, UrgentDays) THEN <<dated, "urgent">>
                 ELSE IF DaysUntilEmptyAtMost(q, total, SoonDays) THEN <<dated, "restock_soon">>
                 ELSE <<dated, None>>
            ELSE IF q <= so.minimum_quantity
                 THEN <<TextValue("below_minimum"), "low_stock_no_usage">>
                 ELSE <<TextValue("no_usage"), None>>
    IN  [stock_object |-> item,
         current_quantity |-> q,
         minimum_quantity |-> so.minimum_quantity,
         total_used_in_90_days |-> total,
         predicted_refill_date |-> outcome[1],
         needs_refill |-> q <= so.minimum_quantity,
         alert_message |-> outcome[2]]

\* Python's order on str, on the names the items carry here.
Alphabetical == <<"bolt", "gear">>

NameIndex(name) == CHOOSE k \in 1 .. Len(Alphabetical) : Alphabetical[k] = name

\* The key of predictions_list.sort: a tuple of three bools, a date and a name.
Truth(b) == IF b THEN 1 ELSE 0

SortKey(x) ==
    <<Truth(x.alert_message # None /\ x.alert_message \in {"urgent", "zero_stock"}),
      Truth(x.alert_message # None),
      Truth(x.needs_refill),
      IF x.predicted_refill_date.is_date THEN x.predicted_refill_date.date ELSE DateMax,
      NameIndex(stock[x.stock_object].name)>>

\* Python's order on tuples: the first differing component decides.
RECURSIVE TupleLess(_, _)
TupleLess(a, b) ==
    IF a = <<>> \/ b = <<>> THEN a = <<>> /\ b # <<>>
    ELSE IF Head(a) # Head(b) THEN Head(a) < Head(b)
    ELSE TupleLess(Tail(a), Tail(b))

\* sort(key=..., reverse=True): greatest key first; the names of a society's items
\* differ (unique_together), so no two keys are equal.
SortedReverse(rows) ==
    [k \in 1 .. Cardinality(rows) |->
        CHOOSE x \in rows : Cardinality({y \in rows : TupleLess(SortKey(x), SortKey(y))}) = k - 1]

\* StockObject.objects.filter(society=society, is_active=True)
ActiveItems(soc) == {i \in RowsOf(stock, soc) : stock[i].is_active}

refill_prediction_stock_service(u) ==
    /\ u \in DOMAIN users
    /\ last' = [op |-> "refill_prediction", outcome |-> "ok",
                predictions |->
                    SortedReverse({Prediction(i) : i \in ActiveItems(users[u].society)})]
    /\ UNCHANGED <<society, users, stock, drawers, placement, movements, refill, kinds,
                  object_users, usages, session, settings, today>>

\* ---------------------------------------------------------------- prediction specification
\* Society A holds two items; item 1 and, when it is active, item 2 are reported.
\* Quantities, thresholds and logged usage are drawn so that every branch of the
\* classification is taken; a usage row is logged today or ninety days before day 0.
PredictionQuantities == {0, 1, 14, 20}

PredictionMinimums == {0, 1, 50}

UsedQuantities == {1, 6, 12, 90}

LoggedRows ==
    {<<>>} \cup
    {<<LoggedAt(Usage("A", i, 1, q, day, NoDate, 1), day)>> :
        i \in ItemIds, q \in UsedQuantities, day \in {0 - NinetyDays, 0}}

InitPrediction ==
    /\ society = ("A" :> SocietyRow("free", FALSE, FALSE))
    /\ users = (1 :> UserRow("A", "ann", "ann@x", "pa", TRUE, TRUE, TRUE))
    /\ \E q1 \in PredictionQuantities, m1 \in PredictionMinimums :
       \E q2 \in PredictionQuantities, m2 \in PredictionMinimums, active \in BOOLEAN :
         stock = (1 :> WithMinimum(StockRow("A", "bolt", NoId, q1, TRUE), m1))
                 @@ (2 :> WithMinimum(StockRow("A", "gear", NoId, q2, active), m2))
    /\ drawers = EmptyTable
    /\ placement = EmptyTable
    /\ movements = <<>>
    /\ refill = EmptyTable
    /\ kinds = EmptyTable
    /\ object_users = (1 :> [society |-> "A", name |-> "lab"])
    /\ \E first \in LoggedRows, second \in LoggedRows : usages = first \o second
    /\ session = NoSession
    /\ settings = SettingsRow(<<"SocietyAuthBackend", "ModelBackend">>)
    /\ today = 0
    /\ handled = 0
    /\ last = NoRequest

NextPrediction ==
    \/ Unmetered /\ \E u \in DOMAIN users : refill_prediction_stock_service(u)
    \/ Unmetered /\ NextDay

SpecPrediction == InitPrediction /\ [][NextPrediction]_vars

\* ---------------------------------------------------------------- claims on the prediction report
\* C22: the report has one row for every active item of the caller's society; with
\* U the usage logged in the trailing 90 days and days_until_empty =
\* current_quantity / (U / 90): U > 0 and current_quantity <= 0 gives the zero-stock
\* alert; else U > 0 and days_until_empty <= 7 gives the urgent alert; else U > 0
\* and days_until_empty <= 14 gives the restock-soon alert with the projected date
\* today + days_until_empty in whole days; else there is no usage-rate alert, and
\* U = 0 with current_quantity <= minimum_quantity gives the low-stock alert with
\* no projected date; needs_refill is true exactly when current_quantity <=
\* minimum_quantity.
C22_PredictionClassification ==
    last.op = "refill_prediction" =>
        /\ {last.predictions[k].stock_object : k \in DOMAIN last.predictions}
               = {i \in DOMAIN stock : stock[i].society = "A" /\ stock[i].is_active}
        /\ \A k \in DOMAIN last.predictions :
             LET x == last.predictions[k]
                 q == stock[x.stock_object].current_quantity
                 m == stock[x.stock_object].minimum_quantity
                 U == SumUsedFrom(usages, "A", x.stock_object, today - 90)
             IN  /\ x.needs_refill <=> q <= m
                 /\ IF U > 0 /\ q <= 0 THEN x.alert_message = "zero_stock"
                    ELSE IF U > 0 /\ q * 90 <= 7 * U THEN x.alert_message = "urgent"
                    ELSE IF U > 0 /\ q * 90 <= 14 * U
                    THEN /\ x.alert_message = "restock_soon"
                         /\ x.predicted_refill_date.is_date
                         /\ x.predicted_refill_date.date = today + ((q * 90) \div U)
                    ELSE IF U = 0 /\ q <= m
                    THEN /\ x.alert_message = "low_stock_no_usage"
                         /\ ~x.predicted_refill_date.is_date
                    ELSE x.alert_message = None

\* A report with a row of quantity 14 and 90 used in the window, dated today + 14
\* under the restock-soon alert, and a row of quantity 20 under minimum 50 without
\* usage, flagged low stock without a date.
C22_Witness ==
    /\ last.op = "refill_prediction"
    /\ \E k \in DOMAIN last.predictions :
         LET x == last.predictions[k]
         IN  /\ x.current_quantity = 14
             /\ x.total_used_in_90_days = 90
             /\ x.alert_message = "restock_soon"
             /\ x.predicted_refill_date = DateValue(today + 14)
    /\ \E k \in DOMAIN last.predictions :
         LET x == last.predictions[k]
         IN  /\ x.current_quantity = 20
             /\ x.minimum_quantity = 50
             /\ x.total_used_in_90_days = 0
             /\ x.alert_message = "low_stock_no_usage"
             /\ x.needs_refill
             /\ ~x.predicted_refill_date.is_date

\* The class of a report row: 3 for an urgent or zero-stock alert, 2 for any other
\* alert, 1 for a row at or below its minimum quantity without an alert, 0 otherwise.
ReportClass(x) ==
    IF x.alert_message \in {"urgent", "zero_stock"} THEN 3
    ELSE IF x.alert_message # None THEN 2
    ELSE IF x.needs_refill THEN 1
    ELSE 0

\* C23: in the report, rows with an urgent or zero-stock alert come first, then rows
\* with any other alert, then rows at or below minimum quantity; within one class a
\* row with an earlier projected date comes before a row with a later one and rows
\* without a date come last (the order by name among rows alike in class and date
\* is taken in either direction).
C23_ReportOrder ==
    last.op = "refill_prediction" =>
        \A j \in DOMAIN last.predictions, k \in DOMAIN last.predictions :
            j < k =>
                LET x == last.predictions[j]
                    y == last.predictions[k]
                    dx == x.predicted_refill_date
                    dy == y.predicted_refill_date
                IN  /\ ReportClass(x) >= ReportClass(y)
                    /\ ReportClass(x) = ReportClass(y) /\ dy.is_date
                           => dx.is_date /\ dx.date <= dy.date

\* ---------------------------------------------------------------- backend specification
\* A call of SocietyAuthBackend.authenticate, as django.contrib.auth.authenticate
\* makes it with the credentials of a login; the response records the credentials
\* and the user returned.
CallSocietyAuthBackend(society_name, username, password) ==
    /\ last' = [op |-> "authenticate",
                outcome |-> IF SocietyAuthBackend_authenticate(username, password, society_name)
                                  = NoUser
                            THEN "None" ELSE "user",
                society_name |-> society_name, username |-> username, password |-> password,
                user |-> SocietyAuthBackend_authenticate(username, password, society_name)]
    /\ UNCHANGED <<society, users, stock, drawers, placement, movements, refill, kinds,
                  object_users, usages, session, settings, today>>

\* Societies A and B; A has its administrator ann and a second user whose username
\* or email may match ann's without regard to case; B has bob.
InitBackend ==
    /\ society = [s \in Societies |-> SocietyRow("free", FALSE, FALSE)]
    /\ \E name \in {"Ann", "cy"}, email \in {"ANN@X", "cy@x"}, pw \in {"pa", "pb"} :
       \E active \in BOOLEAN :
         users = (1 :> UserRow("A", "ann", "ann@x", "pa", TRUE, TRUE, TRUE))
                 @@ (2 :> UserRow("B", "bob", "bob@x", "pb", TRUE, TRUE, TRUE))
                 @@ (3 :> UserRow("A", name, email, pw, FALSE, active, FALSE))
    /\ stock = EmptyTable
    /\ drawers = EmptyTable
    /\ placement = EmptyTable
    /\ movements = <<>>
    /\ refill = EmptyTable
    /\ today = 0
    /\ last = NoRequest
    /\ InitRest

NextBackend ==
    \/ Unmetered /\ \E sn \in SocietyNames, name \in Identifiers, pw \in Passwords :
          CallSocietyAuthBackend(sn, name, pw)
    \/ Unmetered /\ CallSocietyAuthBackend(None, None, None)

SpecBackend == InitBackend /\ [][NextBackend]_vars

\* C24: when more than one user of the named society matches the submitted
\* identifier, by username or by email without regard to case,
\* SocietyAuthBackend.authenticate returns no user whatever the password, also
\* when the password is that of one of the matching users.
C24_AmbiguousIdentifierFails ==
    ( /\ last.op = "authenticate"
      /\ Cardinality({u \in DOMAIN users :
                        /\ users[u].society = last.society_name
                        /\ \/ Lower(users[u].username) = Lower(last.username)
                           \/ Lower(users[u].email) = Lower(last.username)}) > 1 )
        => last.user = NoUser

\* The backend was called with an identifier that two users of society A match and
\* with the password of one of them only.
C24_Witness ==
    /\ last.op = "authenticate"
    /\ last.society_name = "A"
    /\ Cardinality(UsersMatching("A", last.username)) = 2
    /\ Cardinality({u \in UsersMatching("A", last.username) :
                      users[u].password = last.password}) = 1
    /\ last.user = NoUser

\* ---------------------------------------------------------------- claims on user management
\* C25: a logged-in user who is no society administrator and requests a
\* user-management operation (list, create, update, delete) is denied, and the
\* request creates, changes and deletes no User row.
C25_MemberDeniedUserManagement ==
    [][\/ last'.outcome = "denied" /\ users' = users
       \/ last'.op \notin {"user_list", "user_create", "user_update", "user_delete"}
       \/ \A actor \in DOMAIN users :
             \/ users[actor].is_society_admin
             \/ /\ ~UserListView(actor)
                /\ \A m \in Methods, name \in Usernames, admin \in BOOLEAN :
                      ~UserCreateView(actor, m, name, "new@x", "pn", admin, TRUE)
                /\ \A m \in Methods, pk \in UserIds, admin \in BOOLEAN, active \in BOOLEAN :
                      ~UserUpdateView(actor, m, pk, StoredEmail(pk), admin, active)
                /\ \A m \in Methods, pk \in UserIds : ~UserDeleteView(actor, m, pk)]_vars

\* A society with a user who is no administrator, and a request to delete a user
\* that was denied.
C25_Witness ==
    /\ last = Response("user_delete", "denied")
    /\ \E u \in DOMAIN users : ~users[u].is_society_admin /\ users[u].is_active
    /\ Cardinality(DOMAIN users) > 1

\* ---------------------------------------------------------------- claims on the audit trail
\* The last row of a log, appended by the step, is for the item and of the magnitude.
AppendedRowFor(before, after, item, field, magnitude) ==
    /\ Len(after) = Len(before) + 1
    /\ after[Len(after)].stock_object = item
    /\ after[Len(after)][field] = magnitude

\* C26: every change of an item's current_quantity is backed by the audit trail:
\* the request that changes it appends exactly one Movement row or one Usage row
\* for that item, of the magnitude of the change.
C26_QuantityChangeHasLedgerRow ==
    [][\A i \in DOMAIN stock \cap DOMAIN stock' :
         stock'[i].current_quantity # stock[i].current_quantity =>
            LET change == stock'[i].current_quantity - stock[i].current_quantity
                magnitude == IF change < 0 THEN 0 - change ELSE change
            IN  \/ /\ AppendedRowFor(movements, movements', i, "quantity", magnitude)
                   /\ usages' = usages
                \/ /\ AppendedRowFor(usages, usages', i, "quantity_used", magnitude)
                   /\ movements' = movements]_vars

\* ---------------------------------------------------------------- claims on the society settings
\* C27: the society settings form validates the drawer flags against the submitted
\* subscription level: a submission with level free and can_manage_drawers or
\* shows_drawers_in_list set, or with level basic and shows_drawers_in_list set,
\* is rejected and leaves the society as it was.
C27_FlagsValidatedAgainstSubmittedLevel ==
    [][last'.op = "society_settings" =>
         \A actor \in DOMAIN users, level \in {"free", "basic"} :
         \A manage \in BOOLEAN, shows \in BOOLEAN :
            ( /\ IsSocietyAdmin(actor)
              /\ \/ level = "free" /\ (manage \/ shows)
                 \/ level = "basic" /\ shows
              /\ society_settings_stock_service(actor, "POST", level, manage, shows) )
               => last'.outcome = "invalid" /\ society' = society]_vars

\* C28: a society's subscription_level changes only through a request of one of
\* its administrators: no request of a user who is no society administrator
\* changes the subscription level or the drawer flags.
C28_OnlyAdminsChangePlan ==
    [][last'.op \in {"fake_payment", "society_settings"} =>
         \A actor \in DOMAIN users :
            ~users[actor].is_society_admin =>
               /\ \A plan \in Levels \cup {"gold"} :
                     fake_payment_view(actor, plan) => society' = society
               /\ \A m \in Methods, level \in Levels, manage \in BOOLEAN, shows \in BOOLEAN :
                     society_settings_stock_service(actor, m, level, manage, shows)
                        => society' = society]_vars

\* ---------------------------------------------------------------- overlapping completions
\* Two POSTs of complete_refill_stock_service for one schedule, served at the same
\* time: both fetch the schedule with get_object_or_404 and find it pending before
\* either enters its atomic block. Each block saves the schedule row first, so the
\* second block waits for the first to commit; it then loads schedule.stock_object,
\* which the first has already increased, adds to it and appends its Movement.
OverlappingCompletions(first, second, pk) ==
    /\ first \in DOMAIN users
    /\ second \in DOMAIN users
    /\ users[first].society = users[second].society
    /\ pk \in RowsOf(refill, users[first].society)
    /\ CanComplete("POST", refill[pk])
    /\ LET soc == users[first].society
           item == refill[pk].stock_object
           q == refill[pk].quantity_to_refill
       IN  /\ refill' = [refill EXCEPT ![pk] = MarkCompleted(MarkCompleted(@, today), today)]
           /\ stock' = [stock EXCEPT ![item].current_quantity = (@ + q) + q]
           /\ movements' = movements \o <<Movement(soc, item, "in", q, first, NoDrawer, pk),
                                          Movement(soc, item, "in", q, second, NoDrawer, pk)>>
    /\ last' = Response("complete_refill_overlap", "completed")
    /\ \A i \in DOMAIN stock' : stock'[i].current_quantity <= MaxQty
    \* the ledger is below its bound before the two rows are appended
    /\ Len(movements) < MaxMovements
    /\ UNCHANGED <<society, users, drawers, placement, today, kinds, object_users, usages,
                  session, settings>>

NextCompletion ==
    \/ NextRefill
    \/ Metered /\ \E first \in DOMAIN users, second \in DOMAIN users, pk \in RowIds :
          OverlappingCompletions(first, second, pk)

SpecCompletion == InitRefill /\ [][NextCompletion]_vars

\* C29: when two completion requests for one pending refill schedule overlap, the
\* item's current_quantity is increased by quantity_to_refill at most once and at
\* most one Movement is created for the schedule.
C29_OverlappingCompletionsCountOnce ==
    [][last'.op = "complete_refill_overlap" =>
         \A pk \in DOMAIN refill :
            ~refill[pk].is_completed /\ refill'[pk].is_completed =>
               /\ stock'[refill[pk].stock_object].current_quantity
                     <= stock[refill[pk].stock_object].current_quantity
                           + refill[pk].quantity_to_refill
               /\ Len(movements') <= Len(movements) + 1]_vars

\* ---------------------------------------------------------------- society registration
\* A Society row with its slug.
WithSlug(row, slug) == row @@ [slug |-> slug]

\* The defaults of a new Society: subscription_level 'free', both flags False.
NewSociety(slug) == WithSlug(SocietyRow("free", FALSE, FALSE), slug)

\* AbstractUser.username_validator, run by User.save() through full_clean() on a
\* new row: letters, digits and @ . + - _ only. "b o" is the name drawn here that
\* has another character.
UsernameValidator(name) == name # "b o"

\* SocietyRegistrationForm.is_valid(): the society name is unique, no slug, no
\* username and no e-mail address equal to the submitted one without regard to
\* case exists, and the two passwords agree.
SocietyRegistrationFormValid(name, slug, admin_username, admin_email, pw, pw_confirm) ==
    /\ name \notin DOMAIN society
    /\ \A s \in DOMAIN society : Lower(society[s].slug) # Lower(slug)
    /\ \A u \in DOMAIN users : Lower(users[u].username) # Lower(admin_username)
    /\ \A u \in DOMAIN users : Lower(users[u].email) # Lower(admin_email)
    /\ pw = pw_confirm

\* register_society_stock_service: form.save() inside transaction.atomic() saves
\* the society and then creates its administrator; an exception raised by
\* create_user leaves the block and rolls the society back.
register_society_stock_service(method, name, slug, admin_username, admin_email, pw, pw_confirm) ==
    /\ IF method # "POST"
       THEN /\ last' = Response("register_society", "form")
            /\ UNCHANGED <<society, users>>
       ELSE IF ~SocietyRegistrationFormValid(name, slug, admin_username, admin_email, pw,
                                             pw_confirm)
       THEN /\ last' = Response("register_society", "invalid")
            /\ UNCHANGED <<society, users>>
       ELSE /\ DOMAIN users # UserIds
            /\ LET raised == ~UsernameValidator(admin_username)
                   saved == society @@ (name :> NewSociety(slug))
                   created == users @@ (NewId(users, UserIds) :>
                                  UserRow(name, admin_username, admin_email, pw, TRUE, TRUE, TRUE))
                   before == [society |-> society, users |-> users]
                   after == [society |-> saved, users |-> IF raised THEN users ELSE created]
                   result == Atomic(before, after, raised)
               IN  /\ society' = result.society
                   /\ users' = result.users
                   /\ last' = Response("register_society", IF raised THEN "error" ELSE "ok")
    /\ UNCHANGED <<stock, drawers, placement, movements, refill, today, kinds, object_users,
                  usages, session, settings>>

\* ---------------------------------------------------------------- registration specification
\* Society A is registered with its administrator ann; visitors register further
\* societies. "X" is the slug "x" in capitals, "Ann" the username "ann" capitalised.
RegisteredNames == {"A", "B", "C"}

Slugs == {"x", "X", "y", "z"}

AdminUsernames == {"Ann", "bo", "b o", "cy"}

AdminEmails == {"ANN@X", "bo@x", "cy@x"}

AdminPasswords == {"pa", "pb"}

InitRegister ==
    /\ society = ("A" :> WithSlug(SocietyRow("free", FALSE, FALSE), "x"))
    /\ users = (1 :> UserRow("A", "ann", "ann@x", "pa", TRUE, TRUE, TRUE))
    /\ stock = EmptyTable
    /\ drawers = EmptyTable
    /\ placement = EmptyTable
    /\ movements = <<>>
    /\ refill = EmptyTable
    /\ today = 0
    /\ last = NoRequest
    /\ InitRest

NextRegister ==
    \/ Unmetered /\ \E name \in RegisteredNames, slug \in Slugs, admin_username \in AdminUsernames :
       \E admin_email \in AdminEmails, pw \in AdminPasswords, pw_confirm \in AdminPasswords :
          register_society_stock_service("POST", name, slug, admin_username, admin_email,
                                         pw, pw_confirm)
    \/ Unmetered /\ register_society_stock_service("GET", "A", "x", "bo", "bo@x", "pa", "pa")

SpecRegister == InitRegister /\ [][NextRegister]_vars

\* ---------------------------------------------------------------- claims on registration
\* C30: society registration is atomic and yields a tenant within the free-tier
\* limits: after a successful registration the new society is on the free plan
\* with both drawer flags false and has exactly one user, who is active and a
\* society administrator; when creating the administrator fails, no Society row
\* is left behind.
C30_RegistrationAtomicAndFree ==
    [][last'.op = "register_society" =>
         /\ last'.outcome = "ok" =>
              /\ Cardinality(DOMAIN society' \ DOMAIN society) = 1
              /\ \A s \in DOMAIN society : society'[s] = society[s]
              /\ \A s \in DOMAIN society' \ DOMAIN society :
                   /\ society'[s].subscription_level = "free"
                   /\ ~society'[s].can_manage_drawers
                   /\ ~society'[s].shows_drawers_in_list
                   /\ Cardinality({u \in DOMAIN users' : users'[u].society = s}) = 1
                   /\ \A u \in DOMAIN users' :
                        users'[u].society = s
                           => users'[u].is_active /\ users'[u].is_society_admin
                   /\ ~Exceeds(1, SUBSCRIPTION_LIMITS["free"].max_admins)
                   /\ ~Exceeds(1, SUBSCRIPTION_LIMITS["free"].max_users)
              /\ \A u \in DOMAIN users : users'[u] = users[u]
         /\ last'.outcome # "ok" => society' = society /\ users' = users]_vars

\* A registration whose administrator could not be created, after one that went
\* through: two societies, and no third one left behind.
C30_Witness ==
    /\ last = Response("register_society", "error")
    /\ Cardinality(DOMAIN society) = 2
    /\ Cardinality(DOMAIN users) = 2

====
